---- MODULE Spec2Model ----
(***************************************************************************)
(* Write-behind cache coordinator of fastapi_mongo_base (CachedMixin):     *)
(* save(), flush_queue_to_db() and get_item() over three stores:           *)
(*   cache : the fast-read keys   "{project}:{Type}:{uid}"  (redis string) *)
(*   hash  : the staged-write map "{project}:{Type}_updates_hash"          *)
(*   db    : the durable collection, one document per uid                  *)
(* Every await of the code is a suspension point, so every handler is a    *)
(* small process whose steps are the redis / mongo calls it awaits.        *)
(* The modelled entity type carries user_id, business_name, is_deleted,    *)
(* task_status and task_progress; the bookkeeping timestamps are outside   *)
(* the snapshot that is compared.                                          *)
(***************************************************************************)
EXTENDS Integers, Sequences, FiniteSets, TLC

VARIABLES cache, hash, db, saver, flusher, getter,
          nSaves, nFlushes, nGets,
          lastSaved, pending, race, lastFlush, got

\* TaskMixin (tasks.py): one task entity, the call its caller awaits, the two
\* sub-operations of save_and_emit, what the call has done, the registered
\* listeners and webhook; and one start_processing() evaluation
VARIABLES task, call, sub, fx, env, nCalls, proc

\* a webhook call that outlives the call that started it, and the number of
\* the call on whose behalf each log record was appended; one wrapped call of
\* _utils/basic.py
VARIABLES bg, logBy, wrap

\* what one client's saves, deletes and lookups of an entity have done so far
VARIABLES hist

storeVars == <<cache, hash, db, saver, flusher, getter, nSaves, nFlushes, nGets,
               lastSaved, pending, race, lastFlush, got>>
taskVars == <<task, call, sub, fx, env, nCalls>>
procVars == <<proc>>
chainVars == <<bg, logBy>>
wrapVars == <<wrap>>
histVars == <<hist>>
moreVars == <<chainVars, wrapVars, histVars>>

vars == <<storeVars, taskVars, procVars, moreVars>>

\* ------------------------------------------------------------------ bounds
MaxUid == 2
NSavers == 2
NFlushers == 2
MaxSaves == 2
MaxFlushes == 2
MaxGets == 1

Uids == 1 .. MaxUid
Savers == 1 .. NSavers
Flushers == 1 .. NFlushers

\* ------------------------------------------------------------- task status
\* tasks.py:20-28; a member's name and its value differ for `none` only.
TaskStatusEnum ==
    {"none", "draft", "init", "processing", "paused", "completed", "done", "error"}

EnumValue(name) == IF name = "none" THEN "null" ELSE name

EnumValues == {EnumValue(n) : n \in TaskStatusEnum}

EnumByValue(v) == CHOOSE n \in TaskStatusEnum : EnumValue(n) = v

\* TaskStatusEnum.Finishes() is called at cached.py:43 and defined nowhere under
\* src/: the terminal set is the one the specification states.
Finishes == {"completed", "done", "error"}

\* ---------------------------------------------------------------- entities
Users == {"u1", "u2"}
Businesses == {"b1", "b2"}
NoValue == "None"

\* task_progress is kept as its JSON text; "half" is a value assigned without
\* validation (tasks.py:241-242 setattr) that is no int (tasks.py:111).
IntTexts == {"50", "100"}
ProgressTexts == IntTexts \cup {"half"}
SaveStatuses == {"processing", "done"}

Owner(u) == IF u % 2 = 1 THEN "u1" ELSE "u2"
Tenant(u) == IF u <= 1 THEN "b1" ELSE "b2"

Entity(u, st, pr, del) ==
    [uid |-> u, user_id |-> Owner(u), business_name |-> Tenant(u),
     task_status |-> st, task_progress |-> pr, is_deleted |-> del]

\* the snapshots a caller saves: two non-terminal ones that differ in two fields,
\* a terminal one, and one whose task_progress is no int
Kinds ==
    {<<"processing", "50", FALSE>>, <<"processing", "100", TRUE>>,
     <<"done", "100", FALSE>>, <<"processing", "half", FALSE>>}

EntityInputs == {Entity(u, k[1], k[2], k[3]) : u \in Uids, k \in Kinds}

\* str(uid) and uuid.UUID(text)
UidStr(u) == ToString(u)
StrUid(s) == CHOOSE u \in Uids : UidStr(u) = s

\* self.model_dump_json(): cached.py:40, cached.py:54
model_dump_json(e) ==
    [uid |-> UidStr(e.uid), user_id |-> e.user_id, business_name |-> e.business_name,
     task_status |-> EnumValue(e.task_status), task_progress |-> e.task_progress,
     is_deleted |-> e.is_deleted]

\* cls(**json.loads(data)) succeeds: the validators accept every field
Validates(j) == j.task_status \in EnumValues /\ j.task_progress \in IntTexts

\* cls(**json.loads(data)): cached.py:71-72, cached.py:103-104
Construct(j) ==
    [uid |-> StrUid(j.uid), user_id |-> j.user_id, business_name |-> j.business_name,
     task_status |-> EnumByValue(j.task_status), task_progress |-> j.task_progress,
     is_deleted |-> j.is_deleted]

\* ------------------------------------------------------------------ stores
EmptyMap == [k \in {} |-> NoValue]

Put(m, k, v) == (k :> v) @@ m
Drop(m, k) == [x \in (DOMAIN m) \ {k} |-> m[x]]

\* redis.set(key, value, ex=Settings.redis_expire); the key is per uid
redis_set(c, u, v) == Put(c, UidStr(u), v)
\* a staging that merges the new task_progress into the entry already staged
hset_Merge(h, u, v) ==
    IF UidStr(u) \in DOMAIN h
    THEN [h EXCEPT ![UidStr(u)].task_progress = v.task_progress]
    ELSE Put(h, UidStr(u), v)
\* a staging that replaces the whole map by the one entry
hset_Alone(h, u, v) == Put(EmptyMap, UidStr(u), v)
\* redis.hset(hash, str(uid), value): the whole snapshot replaces the entry
hset(h, u, v) == Put(h, UidStr(u), v)
\* a terminal save that leaves the staged entry in place
hdel_Skipped(h, u) == h
\* redis.hdel(hash, str(uid))
hdel(h, u) == Drop(h, UidStr(u))
\* a clear that removes only the entries the flush has read
redis_delete_ReadOnly(h, items) == [k \in (DOMAIN h) \ (DOMAIN items) |-> h[k]]
\* a flush that never clears the map
redis_delete_Skipped(h, items) == h
\* redis.delete(hash): the whole map goes, whatever the flush has read (items)
redis_delete(h, items) == EmptyMap
\* redis.hgetall(hash)
hgetall(h) == h
\* redis.hexists(hash, str(uid)): cached.py:29-33
is_cached(u) == UidStr(u) \in DOMAIN hash
\* an insert that leaves an existing document as it is
Upsert_InsertOnly(d, u, doc) == IF u \in DOMAIN d THEN d ELSE Put(d, u, doc)
\* upsert-by-uid with $set of every field
Upsert(d, u, doc) == Put(d, u, doc)

\* ------------------------------------------------------------------ lookups
\* the class of the modelled entity declares these attributes (hasattr)
ClassAttrs == {"user_id", "business_name", "is_deleted", "task_status"}

\* a lookup that never finds the fast-read key
CacheGet_AlwaysMiss(c, u, user_id, business_name) == [outcome |-> "miss"]

\* a hit that checks the owner and not the tenant
CacheGet_NoTenantCheck(c, u, user_id, business_name) ==
    IF UidStr(u) \notin DOMAIN c THEN [outcome |-> "miss"]
    ELSE IF ~Validates(c[UidStr(u)]) THEN [outcome |-> "raise"]
    ELSE LET item == Construct(c[UidStr(u)]) IN
         IF user_id # NoValue /\ item.user_id # user_id THEN [outcome |-> "none"]
         ELSE [outcome |-> "item", item |-> item]

\* cached.py:101-109: the fast-read key, then the identity checks on a hit.
CacheGet(c, u, user_id, business_name) ==
    IF UidStr(u) \notin DOMAIN c THEN [outcome |-> "miss"]
    ELSE IF ~Validates(c[UidStr(u)]) THEN [outcome |-> "raise"]
    ELSE LET item == Construct(c[UidStr(u)]) IN
         IF user_id # NoValue /\ item.user_id # user_id THEN [outcome |-> "none"]
         ELSE IF item.business_name # business_name THEN [outcome |-> "none"]
         ELSE [outcome |-> "item", item |-> item]

\* BaseEntity.get_query: models.py:45-61
get_query(d, user_id, business_name, is_deleted) ==
    {d[k] : k \in {x \in DOMAIN d :
        /\ d[x].is_deleted = is_deleted
        /\ ("user_id" \in ClassAttrs /\ user_id # NoValue) => d[x].user_id = user_id
        /\ "business_name" \in ClassAttrs => d[x].business_name = business_name}}

\* BaseEntity.get_item: models.py:63-85
DbGet(d, u, user_id, business_name, is_deleted) ==
    LET items == {doc \in get_query(d, user_id, business_name, is_deleted) :
                    doc.uid = u} IN
    IF items = {} THEN [outcome |-> "none"]
    ELSE IF Cardinality(items) > 1 THEN [outcome |-> "raise"]
    ELSE [outcome |-> "item", item |-> CHOOSE doc \in items : TRUE]

\* an owner lookup that goes to the store without looking at user_id
OwnedEntity_get_item_NoCheck(d, u, user_id, business_name, is_deleted) ==
    DbGet(d, u, user_id, business_name, is_deleted)

\* OwnedEntity.get_item: models.py:201-205
OwnedEntity_get_item(d, u, user_id, business_name, is_deleted) ==
    IF user_id = NoValue THEN [outcome |-> "ValueError"]
    ELSE DbGet(d, u, user_id, business_name, is_deleted)

\* BusinessEntity.get_item: models.py:217-221
BusinessEntity_get_item(d, u, user_id, business_name, is_deleted) ==
    IF business_name = NoValue THEN [outcome |-> "ValueError"]
    ELSE DbGet(d, u, user_id, business_name, is_deleted)

\* --------------------------------------------------------------- processes
IdleSaver == [pc |-> "idle"]

IdleFlusher ==
    [pc |-> "idle", items |-> EmptyMap, solo |-> FALSE, second |-> FALSE,
     nosave |-> FALSE, twinWrote |-> FALSE, mid |-> EmptyMap, post |-> EmptyMap,
     prevPost |-> EmptyMap]

IdleGetter == [pc |-> "idle"]
NoFlush == [kind |-> "none"]
NoGet == [outcome |-> "pending"]

SaverBusy(q) == saver[q].pc # "idle"
FlusherBusy(f) == flusher[f].pc # "idle"

\* a flush still acts on uid u: its clear is pending, or u is in the batch it holds
FlushTouches(f, u) ==
    \/ flusher[f].pc = "read"
    \/ flusher[f].pc = "cleared" /\ UidStr(u) \in DOMAIN flusher[f].items

SaverOn(u) == \E q \in Savers : SaverBusy(q) /\ saver[q].ent.uid = u

Quiescent ==
    /\ \A q \in Savers : ~SaverBusy(q)
    /\ \A f \in Flushers : ~FlusherBusy(f)

\* tasks.py:108-113: a task as constructed, with the status it was given
NewTask ==
    [task_status |-> "draft", task_progress |-> -1, task_report |-> NoValue,
     task_logs |-> <<>>]

NoCall == [op |-> "none", pc |-> "idle"]
NoRequest == [url |-> NoValue]
NoSub ==
    [persist |-> "none", notify |-> "none", hook |-> "none", heard |-> <<>>,
     raised |-> {}, request |-> NoRequest, targets |-> <<>>, ran |-> {}]
NoBg == [pc |-> "none", owner |-> 0]
NoFx == [combined |-> 0, saves |-> 0, emits |-> 0, posts |-> 0]
NoEnv == [meta_data |-> EmptyMap, signal_map |-> EmptyMap]
NoWrap == [pc |-> "idle", kind |-> "none"]
NoLookup == [settled |-> EmptyMap, deleted |-> FALSE]
NoHist ==
    [settled |-> EmptyMap, deleted |-> {}, deleting |-> FALSE, sealed |-> EmptyMap,
     at |-> NoLookup]
NoProc == [pc |-> "idle"]

TaskIdle ==
    /\ task = NewTask
    /\ call = NoCall
    /\ sub = NoSub
    /\ fx = NoFx
    /\ env = NoEnv
    /\ nCalls = 0

ProcIdle == proc = NoProc

MoreIdle == bg = NoBg /\ logBy = <<>> /\ wrap = NoWrap /\ hist = NoHist

StoresInit ==
    /\ cache = EmptyMap
    /\ hash = EmptyMap
    /\ db = EmptyMap
    /\ saver = [q \in Savers |-> IdleSaver]
    /\ flusher = [f \in Flushers |-> IdleFlusher]
    /\ getter = IdleGetter
    /\ nSaves = 0
    /\ nFlushes = 0
    /\ nGets = 0
    /\ lastSaved = EmptyMap
    /\ pending = {}
    /\ race = EmptyMap
    /\ lastFlush = NoFlush
    /\ got = NoGet

Init == StoresInit /\ TaskIdle /\ ProcIdle /\ MoreIdle

\* -------------------------------------------------------- CachedMixin.save
\* cached.py:35-42: the call and its first await, redis.set of the fast-read key.
SaveSet(p, e) ==
    /\ ~SaverBusy(p)
    /\ \A q \in Savers : q < p => SaverBusy(q)
    /\ nSaves < MaxSaves
    /\ nSaves' = nSaves + 1
    /\ cache' = redis_set(cache, e.uid, model_dump_json(e))
    /\ saver' = [q \in Savers |->
                    IF q = p THEN [pc |-> "set", ent |-> e] ELSE saver[q]]
    /\ flusher' = [f \in Flushers |->
                    IF FlusherBusy(f)
                    THEN [flusher[f] EXCEPT !.solo = FALSE, !.nosave = FALSE]
                    ELSE flusher[f]]
    /\ race' = IF SaverOn(e.uid)
               THEN IF e.uid \in DOMAIN race
                    THEN Put(race, e.uid, race[e.uid] \cup {e}) ELSE race
               ELSE IF \E f \in Flushers : FlushTouches(f, e.uid)
                    THEN Drop(race, e.uid) ELSE Put(race, e.uid, {e})
    /\ lastFlush' = NoFlush
    /\ UNCHANGED <<hash, db, getter, nFlushes, nGets, lastSaved, pending, got>>

\* what a returning save leaves in the history variables
SaveReturns(p, staged) ==
    LET e == saver[p].ent IN
    /\ saver' = [saver EXCEPT ![p] = IdleSaver]
    /\ lastSaved' = Put(lastSaved, e.uid, e)
    /\ pending' = IF staged THEN pending \cup {e.uid} ELSE pending \ {e.uid}

\* cached.py:43-44: terminal status, super().save() writes the durable store.
SaveDurable(p) ==
    /\ saver[p].pc = "set"
    /\ saver[p].ent.task_status \in Finishes
    /\ db' = Upsert(db, saver[p].ent.uid, saver[p].ent)
    /\ saver' = [saver EXCEPT ![p].pc = "saved"]
    /\ UNCHANGED <<cache, hash, flusher, getter, nSaves, nFlushes, nGets,
                   lastSaved, pending, race, lastFlush, got>>

\* the durable write raises and the staged entry is removed all the same
SaveDurableFails_Hdel(p) ==
    /\ saver[p].pc = "set"
    /\ saver[p].ent.task_status \in Finishes
    /\ saver' = [saver EXCEPT ![p] = IdleSaver]
    /\ hash' = hdel(hash, saver[p].ent.uid)
    /\ race' = Drop(race, saver[p].ent.uid)
    /\ UNCHANGED <<cache, db, flusher, getter, nSaves, nFlushes, nGets,
                   lastSaved, pending, lastFlush, got>>

\* cached.py:44: the durable write raises; the error leaves save() at once.
SaveDurableFails(p) ==
    /\ saver[p].pc = "set"
    /\ saver[p].ent.task_status \in Finishes
    /\ saver' = [saver EXCEPT ![p] = IdleSaver]
    /\ race' = Drop(race, saver[p].ent.uid)
    /\ UNCHANGED <<cache, hash, db, flusher, getter, nSaves, nFlushes, nGets,
                   lastSaved, pending, lastFlush, got>>

\* cached.py:45-49: redis.hdel of the staged entry, then return.
SaveHdel(p) ==
    /\ saver[p].pc = "saved"
    /\ hash' = hdel(hash, saver[p].ent.uid)
    /\ flusher' = [f \in Flushers |->
                    IF flusher[f].pc = "cleared"
                    THEN [flusher[f] EXCEPT
                            !.post = Drop(@, UidStr(saver[p].ent.uid))]
                    ELSE flusher[f]]
    /\ lastFlush' = IF lastFlush.kind = "flush"
                    THEN [lastFlush EXCEPT !.post = Drop(@, UidStr(saver[p].ent.uid))]
                    ELSE lastFlush
    /\ SaveReturns(p, FALSE)
    /\ UNCHANGED <<cache, db, getter, nSaves, nFlushes, nGets, race, got>>

\* cached.py:50-55: non-terminal status, redis.hset of the full snapshot.
SaveStage(p) ==
    LET e == saver[p].ent
        j == model_dump_json(e) IN
    /\ saver[p].pc = "set"
    /\ e.task_status \notin Finishes
    /\ hash' = hset(hash, e.uid, j)
    /\ flusher' = [f \in Flushers |->
                    IF flusher[f].pc = "read"
                    THEN [flusher[f] EXCEPT !.mid = Put(@, UidStr(e.uid), j)]
                    ELSE IF flusher[f].pc = "cleared"
                    THEN [flusher[f] EXCEPT !.post = Put(@, UidStr(e.uid), j)]
                    ELSE flusher[f]]
    /\ lastFlush' = IF lastFlush.kind = "flush"
                    THEN [lastFlush EXCEPT !.post = Put(@, UidStr(e.uid), j)]
                    ELSE lastFlush
    /\ SaveReturns(p, TRUE)
    /\ UNCHANGED <<cache, db, getter, nSaves, nFlushes, nGets, race, got>>

\* ------------------------------------------- CachedMixin.flush_queue_to_db
\* cached.py:58-62: redis.hgetall of the whole staged-write map.
FlushRead(f) ==
    /\ ~FlusherBusy(f)
    /\ \A g \in Flushers : g < f => FlusherBusy(g)
    /\ nFlushes < MaxFlushes
    /\ nFlushes' = nFlushes + 1
    /\ flusher' = [g \in Flushers |->
                    IF g = f
                    THEN [pc |-> "read", items |-> hgetall(hash),
                          solo |-> Quiescent,
                          second |-> (lastFlush.kind = "flush" /\ lastFlush.solo),
                          nosave |-> (\A q \in Savers : ~SaverBusy(q)),
                          twinWrote |-> FALSE, mid |-> EmptyMap, post |-> EmptyMap,
                          prevPost |-> IF lastFlush.kind = "flush"
                                       THEN lastFlush.post ELSE EmptyMap]
                    ELSE IF FlusherBusy(g)
                         THEN [flusher[g] EXCEPT !.solo = FALSE]
                         ELSE flusher[g]]
    /\ race' = [u \in {x \in DOMAIN race : ~is_cached(x) /\ ~SaverOn(x)} |-> race[u]]
    /\ lastFlush' = NoFlush
    /\ UNCHANGED <<cache, hash, db, saver, getter, nSaves, nGets, lastSaved,
                   pending, got>>

\* cached.py:64-65: redis.delete of the staged-write map.
FlushClear(f) ==
    /\ flusher[f].pc = "read"
    /\ hash' = redis_delete(hash, flusher[f].items)
    /\ flusher' = [g \in Flushers |->
                    IF g = f THEN [flusher[g] EXCEPT !.pc = "cleared"]
                    ELSE IF flusher[g].pc = "cleared"
                         THEN [flusher[g] EXCEPT !.post = EmptyMap]
                         ELSE flusher[g]]
    /\ lastFlush' = IF lastFlush.kind = "flush"
                    THEN [lastFlush EXCEPT !.post = EmptyMap] ELSE lastFlush
    /\ UNCHANGED <<cache, db, saver, getter, nSaves, nFlushes, nGets,
                   lastSaved, pending, race, got>>

\* a loop that stops after the first entry
BulkOperations_OnlyFirst(items, keys) ==
    IF keys = {} THEN <<>>
    ELSE LET k == CHOOSE x \in keys : TRUE IN
         <<[filter |-> StrUid(k), set |-> Construct(items[k])]>>

\* cached.py:69-82: one UpdateOne(filter by uid, $set, upsert) per entry read.
RECURSIVE BulkOperations(_, _)
BulkOperations(items, keys) ==
    IF keys = {} THEN <<>>
    ELSE LET k == CHOOSE x \in keys : TRUE IN
         <<[filter |-> StrUid(k), set |-> Construct(items[k])]>>
            \o BulkOperations(items, keys \ {k})

\* collection.bulk_write(bulk_operations): cached.py:86
RECURSIVE bulk_write(_, _)
bulk_write(d, ops) ==
    IF ops = <<>> THEN d
    ELSE bulk_write(Upsert(d, Head(ops).filter, Head(ops).set), Tail(ops))

\* what a returning flush leaves in the history variables
FlushReturns(f, outcome, ops, calls) ==
    LET me == flusher[f] IN
    /\ flusher' = [g \in Flushers |->
                    IF g = f THEN IdleFlusher
                    ELSE IF FlusherBusy(g) /\ flusher[g].items = me.items
                            /\ me.nosave /\ outcome = "ok"
                         THEN [flusher[g] EXCEPT !.twinWrote = TRUE]
                         ELSE flusher[g]]
    /\ lastFlush' = [kind |-> "flush", items |-> me.items, solo |-> me.solo,
                     second |-> (me.second /\ me.solo), outcome |-> outcome,
                     ops |-> ops, calls |-> calls, changed |-> (db' # db),
                     double |-> (me.twinWrote /\ me.nosave),
                     mid |-> me.mid, post |-> me.post, prevPost |-> me.prevPost]
    /\ pending' = pending \ {StrUid(k) : k \in DOMAIN me.items}

\* cached.py:67: nothing was read, nothing is written.
FlushNothing(f) ==
    /\ flusher[f].pc = "cleared"
    /\ DOMAIN flusher[f].items = {}
    /\ db' = db
    /\ FlushReturns(f, "ok", <<>>, 0)
    /\ UNCHANGED <<cache, hash, saver, getter, nSaves, nFlushes, nGets,
                   lastSaved, race, got>>

\* a loop that skips the entries it cannot reconstruct and writes the others
FlushAbort_SkipBad(f) ==
    LET items == flusher[f].items
        good == {k \in DOMAIN items : Validates(items[k])}
        ops == BulkOperations(items, good) IN
    /\ flusher[f].pc = "cleared"
    /\ \E k \in DOMAIN items : ~Validates(items[k])
    /\ db' = bulk_write(db, ops)
    /\ FlushReturns(f, "ok", ops, IF good = {} THEN 0 ELSE 1)
    /\ UNCHANGED <<cache, hash, saver, getter, nSaves, nFlushes, nGets,
                   lastSaved, race, got>>

\* cached.py:70-72: an entry cannot be reconstructed, the loop raises.
FlushAbort(f) ==
    /\ flusher[f].pc = "cleared"
    /\ \E k \in DOMAIN flusher[f].items : ~Validates(flusher[f].items[k])
    /\ db' = db
    /\ FlushReturns(f, "raised", <<>>, 0)
    /\ UNCHANGED <<cache, hash, saver, getter, nSaves, nFlushes, nGets,
                   lastSaved, race, got>>

\* cached.py:84-87: every entry was reconstructed, one bulk_write call.
FlushBulkWrite(f) ==
    LET items == flusher[f].items
        ops == BulkOperations(items, DOMAIN items) IN
    /\ flusher[f].pc = "cleared"
    /\ DOMAIN items # {}
    /\ \A k \in DOMAIN items : Validates(items[k])
    /\ db' = bulk_write(db, ops)
    /\ FlushReturns(f, "ok", ops, 1)
    /\ UNCHANGED <<cache, hash, saver, getter, nSaves, nFlushes, nGets,
                   lastSaved, race, got>>

\* the fast-read key expires (ex=Settings.redis_expire): cached.py:41
Expire(u) ==
    /\ UidStr(u) \in DOMAIN cache
    /\ cache' = Drop(cache, UidStr(u))
    /\ UNCHANGED <<hash, db, saver, flusher, getter, nSaves, nFlushes, nGets,
                   lastSaved, pending, race, lastFlush, got>>

\* ---------------------------------------------------- CachedMixin.get_item
\* ignore_user_id is passed by the callers that pass no user_id
GetArgs ==
    {a \in [uid : Uids, user_id : Users \cup {NoValue},
            business_name : Businesses \cup {NoValue}, is_deleted : BOOLEAN,
            ignore_user_id : BOOLEAN] :
        a.ignore_user_id => a.user_id = NoValue}

Returned(a, r, src) ==
    [args |-> a, outcome |-> r.outcome, src |-> src,
     item |-> IF r.outcome = "item" THEN r.item ELSE NoValue]

\* cached.py:99-100: no user_id and ignore_user_id not set, ValueError at once.
GetRaises(a) ==
    /\ getter.pc = "idle"
    /\ nGets < MaxGets
    /\ a.user_id = NoValue /\ a.ignore_user_id # TRUE
    /\ nGets' = nGets + 1
    /\ got' = Returned(a, [outcome |-> "ValueError"], "none")
    /\ UNCHANGED <<cache, hash, db, saver, flusher, getter, nSaves, nFlushes,
                   lastSaved, pending, race, lastFlush>>

\* cached.py:101-109: redis.get finds the key; the answer is made from it.
GetCacheHit(a) ==
    LET r == CacheGet(cache, a.uid, a.user_id, a.business_name) IN
    /\ getter.pc = "idle"
    /\ nGets < MaxGets
    /\ ~(a.user_id = NoValue /\ a.ignore_user_id # TRUE)
    /\ r.outcome # "miss"
    /\ nGets' = nGets + 1
    /\ got' = Returned(a, r, "cache")
    /\ UNCHANGED <<cache, hash, db, saver, flusher, getter, nSaves, nFlushes,
                   lastSaved, pending, race, lastFlush>>

\* cached.py:101-102: redis.get finds nothing; the durable lookup is next.
GetCacheMiss(a) ==
    /\ getter.pc = "idle"
    /\ nGets < MaxGets
    /\ ~(a.user_id = NoValue /\ a.ignore_user_id # TRUE)
    /\ CacheGet(cache, a.uid, a.user_id, a.business_name).outcome = "miss"
    /\ nGets' = nGets + 1
    /\ getter' = [pc |-> "miss", args |-> a]
    /\ got' = NoGet
    /\ UNCHANGED <<cache, hash, db, saver, flusher, nSaves, nFlushes,
                   lastSaved, pending, race, lastFlush>>

\* cached.py:110-117: super().get_item, the durable store's lookup.
GetDb ==
    LET a == getter.args IN
    /\ getter.pc = "miss"
    /\ got' = Returned(a, DbGet(db, a.uid, a.user_id, a.business_name, a.is_deleted),
                       "db")
    /\ getter' = IdleGetter
    /\ UNCHANGED <<cache, hash, db, saver, flusher, nSaves, nFlushes, nGets,
                   lastSaved, pending, race, lastFlush>>

\* the lookups of the classes without the cache: is_deleted keeps its default
ClassArgs == {a \in GetArgs : ~a.ignore_user_id /\ ~a.is_deleted}

ReturnedBy(cls, a, r) ==
    [cls |-> cls, args |-> a, outcome |-> r.outcome,
     src |-> IF r.outcome = "ValueError" THEN "none" ELSE "db",
     item |-> IF r.outcome = "item" THEN r.item ELSE NoValue]

\* models.py:201-205: OwnedEntity.get_item, one await (the query's to_list)
GetOwned(a) ==
    /\ getter.pc = "idle"
    /\ nGets < MaxGets
    /\ nGets' = nGets + 1
    /\ got' = ReturnedBy("OwnedEntity", a,
                  OwnedEntity_get_item(db, a.uid, a.user_id, a.business_name,
                                       a.is_deleted))
    /\ UNCHANGED <<cache, hash, db, saver, flusher, getter, nSaves, nFlushes,
                   lastSaved, pending, race, lastFlush>>

\* models.py:217-221: BusinessEntity.get_item, one await (the query's to_list)
GetBusiness(a) ==
    /\ getter.pc = "idle"
    /\ nGets < MaxGets
    /\ nGets' = nGets + 1
    /\ got' = ReturnedBy("BusinessEntity", a,
                  BusinessEntity_get_item(db, a.uid, a.user_id, a.business_name,
                                          a.is_deleted))
    /\ UNCHANGED <<cache, hash, db, saver, flusher, getter, nSaves, nFlushes,
                   lastSaved, pending, race, lastFlush>>

Next ==
    \/ \E p \in Savers, e \in EntityInputs : SaveSet(p, e) /\ UNCHANGED <<taskVars, procVars, moreVars>>
    \/ \E p \in Savers : SaveDurable(p) /\ UNCHANGED <<taskVars, procVars, moreVars>>
    \/ \E p \in Savers : SaveDurableFails(p) /\ UNCHANGED <<taskVars, procVars, moreVars>>
    \/ \E p \in Savers : SaveHdel(p) /\ UNCHANGED <<taskVars, procVars, moreVars>>
    \/ \E p \in Savers : SaveStage(p) /\ UNCHANGED <<taskVars, procVars, moreVars>>
    \/ \E f \in Flushers : FlushRead(f) /\ UNCHANGED <<taskVars, procVars, moreVars>>
    \/ \E f \in Flushers : FlushClear(f) /\ UNCHANGED <<taskVars, procVars, moreVars>>
    \/ \E f \in Flushers : FlushNothing(f) /\ UNCHANGED <<taskVars, procVars, moreVars>>
    \/ \E f \in Flushers : FlushAbort(f) /\ UNCHANGED <<taskVars, procVars, moreVars>>
    \/ \E f \in Flushers : FlushBulkWrite(f) /\ UNCHANGED <<taskVars, procVars, moreVars>>

Spec == Init /\ [][Next]_vars

\* one saving client, one flushing client and one reader, the fast-read keys expiring
MaxGetSaves == 2
MaxGetFlushes == 1

\* the stores move until the reader has its answer
Reading == got = NoGet

NextGet ==
    \/ \E e \in EntityInputs : Reading /\ nSaves < MaxGetSaves /\ SaveSet(1, e) /\ UNCHANGED <<taskVars, procVars, moreVars>>
    \/ Reading /\ SaveDurable(1) /\ UNCHANGED <<taskVars, procVars, moreVars>>
    \/ Reading /\ SaveDurableFails(1) /\ UNCHANGED <<taskVars, procVars, moreVars>>
    \/ Reading /\ SaveHdel(1) /\ UNCHANGED <<taskVars, procVars, moreVars>>
    \/ Reading /\ SaveStage(1) /\ UNCHANGED <<taskVars, procVars, moreVars>>
    \/ Reading /\ nFlushes < MaxGetFlushes /\ FlushRead(1) /\ UNCHANGED <<taskVars, procVars, moreVars>>
    \/ Reading /\ FlushClear(1) /\ UNCHANGED <<taskVars, procVars, moreVars>>
    \/ Reading /\ FlushNothing(1) /\ UNCHANGED <<taskVars, procVars, moreVars>>
    \/ Reading /\ FlushAbort(1) /\ UNCHANGED <<taskVars, procVars, moreVars>>
    \/ Reading /\ FlushBulkWrite(1) /\ UNCHANGED <<taskVars, procVars, moreVars>>
    \/ \E u \in Uids : Reading /\ Expire(u) /\ UNCHANGED <<taskVars, procVars, moreVars>>
    \/ \E a \in GetArgs : GetRaises(a) /\ UNCHANGED <<taskVars, procVars, moreVars>>
    \/ \E a \in GetArgs : GetCacheHit(a) /\ UNCHANGED <<taskVars, procVars, moreVars>>
    \/ \E a \in GetArgs : GetCacheMiss(a) /\ UNCHANGED <<taskVars, procVars, moreVars>>
    \/ GetDb /\ UNCHANGED <<taskVars, procVars, moreVars>>
    \/ \E a \in ClassArgs : GetOwned(a) /\ UNCHANGED <<taskVars, procVars, moreVars>>
    \/ \E a \in ClassArgs : GetBusiness(a) /\ UNCHANGED <<taskVars, procVars, moreVars>>

SpecGet == Init /\ [][NextGet]_vars

\* ---------------------------------------------------------------------------
\* One client that saves, deletes and looks up entities, one flush, the
\* fast-read keys expiring; hist keeps what the client's calls have done:
\*   settled : uid -> the snapshot of a returned non-terminal save, until the
\*             next save of the uid starts
\*   sealed  : uid -> the snapshot a terminal save wrote to the durable store,
\*             until the next save of the uid starts
\*   deleted : the uids whose delete_item has returned, until the next save
\*   at      : what settled and deleted said about the uid when the lookup began
\* ---------------------------------------------------------------------------

\* the items delete_item is called on: entities as loaded, not yet deleted
DeleteInputs == {e \in EntityInputs : ~e.is_deleted /\ Validates(model_dump_json(e))}

\* the lookups of the client: its own identity, is_deleted left at its default
LifeArgs ==
    {a \in GetArgs : /\ a.user_id = Owner(a.uid) /\ a.business_name = Tenant(a.uid)
                     /\ ~a.is_deleted /\ ~a.ignore_user_id}

\* a save of uid u starts: what was known of u is no longer the latest
HistStart(u, deleting) ==
    hist' = [hist EXCEPT !.settled = Drop(@, u), !.sealed = Drop(@, u),
                         !.deleted = @ \ {u}, !.deleting = deleting]

\* the save in flight returns
HistReturn(staged) ==
    LET e == saver[1].ent IN
    hist' = [hist EXCEPT !.settled = IF staged THEN Put(@, e.uid, e) ELSE @,
                         !.deleted = IF hist.deleting THEN @ \cup {e.uid} ELSE @,
                         !.deleting = FALSE]

\* a lookup of a.uid begins
HistLookup(a) ==
    hist' = [hist EXCEPT !.at =
                [settled |-> [u \in (DOMAIN hist.settled) \cap {a.uid} |-> hist.settled[u]],
                 deleted |-> a.uid \in hist.deleted]]

\* models.py:187-191: delete_item(item): item.is_deleted = True, then
\* item.save(), here up to the first await of CachedMixin.save
delete_item(item) == SaveSet(1, [item EXCEPT !.is_deleted = TRUE])

InitLife == StoresInit /\ TaskIdle /\ ProcIdle /\ MoreIdle

othersOfLife == <<taskVars, procVars, chainVars, wrapVars>>

NextLife ==
    \/ \E e \in EntityInputs : Reading /\ nSaves < MaxGetSaves /\ SaveSet(1, e) /\ HistStart(e.uid, FALSE) /\ UNCHANGED othersOfLife
    \/ \E e \in DeleteInputs : Reading /\ nSaves < MaxGetSaves /\ delete_item(e) /\ HistStart(e.uid, TRUE) /\ UNCHANGED othersOfLife
    \/ Reading /\ SaveDurable(1) /\ hist' = [hist EXCEPT !.sealed = Put(@, saver[1].ent.uid, saver[1].ent)] /\ UNCHANGED othersOfLife
    \/ Reading /\ SaveDurableFails(1) /\ hist' = [hist EXCEPT !.deleting = FALSE] /\ UNCHANGED othersOfLife
    \/ Reading /\ SaveHdel(1) /\ HistReturn(FALSE) /\ UNCHANGED othersOfLife
    \/ Reading /\ SaveStage(1) /\ HistReturn(TRUE) /\ UNCHANGED othersOfLife
    \/ Reading /\ nFlushes < MaxGetFlushes /\ FlushRead(1) /\ UNCHANGED <<othersOfLife, histVars>>
    \/ Reading /\ FlushClear(1) /\ UNCHANGED <<othersOfLife, histVars>>
    \/ Reading /\ FlushNothing(1) /\ UNCHANGED <<othersOfLife, histVars>>
    \/ Reading /\ FlushAbort(1) /\ UNCHANGED <<othersOfLife, histVars>>
    \/ Reading /\ FlushBulkWrite(1) /\ UNCHANGED <<othersOfLife, histVars>>
    \/ \E u \in Uids : Reading /\ Expire(u) /\ UNCHANGED <<othersOfLife, histVars>>
    \/ \E a \in LifeArgs : GetCacheHit(a) /\ HistLookup(a) /\ UNCHANGED othersOfLife
    \/ \E a \in LifeArgs : GetCacheMiss(a) /\ HistLookup(a) /\ UNCHANGED othersOfLife
    \/ GetDb /\ UNCHANGED <<othersOfLife, histVars>>

SpecLife == InitLife /\ [][NextLife]_vars

\* ------------------------------------------------------------------ claims
Found(e) == [outcome |-> "item", item |-> e]

\* the save of u that ran with no other operation on u in flight, once returned
SavedAlone(u) ==
    /\ u \in DOMAIN race
    /\ Cardinality(race[u]) = 1
    /\ ~SaverOn(u)
    /\ u \in DOMAIN lastSaved
    /\ lastSaved[u] \in race[u]

RaceOver(u) ==
    /\ u \in DOMAIN race
    /\ ~SaverOn(u)
    /\ \A e \in race[u] : e.task_status \notin Finishes

\* C2: after a save() of an entity with a non-terminal status has returned, the
\* staged entry of its uid is the snapshot saved; when several saves race on one
\* uid (no flush on it in flight), after all have returned the staged entry is
\* exactly one of their snapshots, that of the staging applied last.
C2_StagedIsOneSnapshot ==
    \A u \in Uids :
        RaceOver(u) =>
            /\ is_cached(u)
            /\ hash[UidStr(u)] = model_dump_json(lastSaved[u])
            /\ hash[UidStr(u)] \in {model_dump_json(e) : e \in race[u]}

\* two saves of one uid overlapped and both have returned
C2_Witness ==
    \E u \in Uids :
        /\ RaceOver(u) /\ Cardinality(race[u]) = 2
        /\ \A e \in race[u] : Validates(model_dump_json(e))

\* C3: no staged write is lost. Once nothing is in flight and nothing is staged,
\* no later flush writes anything, so the durable store must by then hold the
\* last snapshot saved of every uid (that snapshot being one the store accepts).
C3_NoStagedWriteLost ==
    (Quiescent /\ hash = EmptyMap) =>
        \A u \in DOMAIN lastSaved :
            (\A v \in DOMAIN lastSaved : Validates(model_dump_json(lastSaved[v]))) =>
                u \in DOMAIN db /\ db[u] = lastSaved[u]

\* C4: with no save or flush in flight, a staged entry exists for a uid exactly
\* when the entity was saved with a non-terminal status since it was last taken
\* by a flush or saved with a terminal status.
C4_StagedIffPending ==
    Quiescent => \A u \in Uids : is_cached(u) <=> u \in pending

\* the flush that returned last ran with no other save or flush in flight
FlushedAlone == lastFlush.kind = "flush" /\ lastFlush.solo

Staged(fl) == DOMAIN fl.items

\* C5: a flush that runs alone and can reconstruct every entry it read issues
\* exactly one upsert-by-uid per entry, in one bulk_write call; afterwards the
\* staged-write map is empty and the store holds each snapshot that was staged.
C5_FlushWritesEveryEntry ==
    (FlushedAlone /\ \A k \in Staged(lastFlush) : Validates(lastFlush.items[k])) =>
        /\ Len(lastFlush.ops) = Cardinality(Staged(lastFlush))
        /\ \A k \in Staged(lastFlush) :
              /\ Cardinality({i \in 1 .. Len(lastFlush.ops) :
                                lastFlush.ops[i].filter = StrUid(k)}) = 1
              /\ StrUid(k) \in DOMAIN db
              /\ db[StrUid(k)] = Construct(lastFlush.items[k])
        /\ lastFlush.calls = IF Staged(lastFlush) = {} THEN 0 ELSE 1
        /\ hash = EmptyMap

\* a lone flush that wrote two staged entries
C5_Witness ==
    /\ FlushedAlone /\ lastFlush.outcome = "ok"
    /\ Cardinality(Staged(lastFlush)) = 2 /\ lastFlush.calls = 1

\* C6: the second of two flushes that run one after the other, with no save in
\* between, performs no durable-store write and leaves the durable store and the
\* staged-write map as they were.
C6_SecondFlushWritesNothing ==
    (lastFlush.kind = "flush" /\ lastFlush.second) =>
        /\ lastFlush.ops = <<>> /\ lastFlush.calls = 0
        /\ ~lastFlush.changed
        /\ lastFlush.items = EmptyMap /\ hash = EmptyMap

\* the second flush follows one that had something to write
C6_Witness ==
    /\ lastFlush.kind = "flush" /\ lastFlush.second
    /\ db # EmptyMap /\ pending = {} /\ nSaves > 0 /\ DOMAIN lastSaved = DOMAIN db
    /\ \A u \in DOMAIN db : db[u].task_status \notin Finishes

\* C7: a staging applied between a flush's read and its clear is lost: that flush
\* does not write it and it is not in the staged-write map afterwards; a staging
\* applied after the clear stays in the map, and the next flush reads and writes it.
C7_ReadClearRace ==
    /\ \A f \in Flushers :
          flusher[f].pc = "cleared" =>
             /\ \A k \in (DOMAIN flusher[f].mid) \ (DOMAIN flusher[f].post) :
                   k \notin DOMAIN hash
             /\ \A k \in DOMAIN flusher[f].post :
                   k \in DOMAIN hash /\ hash[k] = flusher[f].post[k]
    /\ \A f \in Flushers :
          FlusherBusy(f) =>
             \A k \in DOMAIN flusher[f].prevPost :
                k \in DOMAIN flusher[f].items
                    /\ flusher[f].items[k] = flusher[f].prevPost[k]
    /\ lastFlush.kind = "flush" =>
          /\ \A k \in (DOMAIN lastFlush.mid) \ (DOMAIN lastFlush.post) :
                /\ k \notin DOMAIN hash
                /\ (k \in Staged(lastFlush) /\ lastFlush.items[k] = lastFlush.mid[k])
                   \/ \A i \in 1 .. Len(lastFlush.ops) :
                         lastFlush.ops[i].filter = StrUid(k) =>
                             lastFlush.ops[i].set # Construct(lastFlush.mid[k])
          /\ \A k \in DOMAIN lastFlush.post :
                k \in DOMAIN hash /\ hash[k] = lastFlush.post[k]
          /\ lastFlush.outcome = "ok" =>
                \A k \in DOMAIN lastFlush.prevPost :
                   \E i \in 1 .. Len(lastFlush.ops) :
                      /\ lastFlush.ops[i].filter = StrUid(k)
                      /\ lastFlush.ops[i].set = Construct(lastFlush.prevPost[k])

\* a flush that wrote what was staged after the previous flush's clear and lost
\* what was staged between its own read and clear
C7_Witness ==
    /\ lastFlush.kind = "flush" /\ lastFlush.outcome = "ok"
    /\ DOMAIN lastFlush.prevPost # {}
    /\ (DOMAIN lastFlush.mid) \ (DOMAIN lastFlush.post) # {}
    /\ \A k \in DOMAIN lastFlush.mid : k \notin Staged(lastFlush)

\* C8: two flushes of one type can both read the same staged entry before either
\* clears the map, and both upsert it; with no save in flight meanwhile, the
\* store then holds, for every entry read, the snapshot a single flush writes.
C8_DoubleFlushHarmless ==
    (lastFlush.kind = "flush" /\ lastFlush.double /\ lastFlush.outcome = "ok") =>
        /\ Len(lastFlush.ops) = Cardinality(Staged(lastFlush))
        /\ \A k \in Staged(lastFlush) :
              StrUid(k) \in DOMAIN db /\ db[StrUid(k)] = Construct(lastFlush.items[k])

\* the second of two flushes that both read, and both upserted, the same entry
C8_Witness ==
    /\ lastFlush.kind = "flush" /\ lastFlush.double /\ lastFlush.outcome = "ok"
    /\ Staged(lastFlush) # {} /\ lastFlush.calls = 1 /\ ~lastFlush.solo

\* C9: a flush that read one snapshot it cannot reconstruct raises and writes
\* nothing to the durable store, not even the entries it can reconstruct.
C9_MalformedAbortsBatch ==
    (lastFlush.kind = "flush"
        /\ \E k \in Staged(lastFlush) : ~Validates(lastFlush.items[k])) =>
        /\ lastFlush.outcome = "raised"
        /\ lastFlush.ops = <<>> /\ lastFlush.calls = 0
        /\ ~lastFlush.changed

\* an aborted flush whose batch held a well-formed entry beside the malformed one
C9_Witness ==
    /\ lastFlush.kind = "flush" /\ lastFlush.outcome = "raised"
    /\ \E k \in Staged(lastFlush) : Validates(lastFlush.items[k])
    /\ \E k \in Staged(lastFlush) : ~Validates(lastFlush.items[k])
    /\ db = EmptyMap /\ hash = EmptyMap

\* C10: get_item never returns an entity whose uid, owner or tenant differs
\* from what the caller passed (an owner of None with ignore_user_id set is no
\* constraint), whether the answer comes from the fast-read key or from the
\* durable store; a hit on a fast-read key that holds a reconstructible
\* snapshot returns nothing exactly when the owner or the tenant differs.
C10_GetItemKeepsIdentity ==
    /\ got.outcome = "item" =>
          /\ got.item.uid = got.args.uid
          /\ (got.args.user_id # NoValue => got.item.user_id = got.args.user_id)
          /\ got.item.business_name = got.args.business_name
    /\ (got # NoGet /\ got.src = "cache") =>
          /\ UidStr(got.args.uid) \in DOMAIN cache
          /\ LET c == cache[UidStr(got.args.uid)]
                 differs == \/ (got.args.user_id # NoValue
                                  /\ c.user_id # got.args.user_id)
                            \/ c.business_name # got.args.business_name
             IN  IF Validates(c) THEN (got.outcome = "none") <=> differs
                 ELSE got.outcome = "raise"

\* a hit on the fast-read key of another owner's entity returned nothing
C10_Witness ==
    /\ got.outcome = "none" /\ got.src = "cache"
    /\ got.args.user_id # NoValue
    /\ UidStr(got.args.uid) \in DOMAIN cache
    /\ cache[UidStr(got.args.uid)].user_id # got.args.user_id
    /\ cache[UidStr(got.args.uid)].business_name = got.args.business_name

\* the answer of CachedMixin.get_item, as opposed to a class-level lookup
CachedAnswer == got # NoGet /\ "cls" \notin DOMAIN got

\* C11: get_item reads the fast-read key first. A key that is present is what
\* answers (the call never goes on to the durable store), and when it holds a
\* reconstructible snapshot of the requested identity the answer is that
\* snapshot; the call goes on to the durable store only when the key is absent,
\* and its answer is then the store's lookup for the same arguments.
C11_CacheFirstThenStore ==
    /\ [](CachedAnswer /\ got.src = "cache" =>
            /\ UidStr(got.args.uid) \in DOMAIN cache
            /\ LET c == cache[UidStr(got.args.uid)] IN
               (/\ Validates(c)
                /\ got.args.user_id \in {NoValue, c.user_id}
                /\ got.args.business_name = c.business_name)
               => got.outcome = "item" /\ got.item = Construct(c))
    /\ [](CachedAnswer /\ got.src = "db" =>
            [outcome |-> got.outcome, item |-> got.item] =
                LET r == DbGet(db, got.args.uid, got.args.user_id,
                               got.args.business_name, got.args.is_deleted)
                IN  [outcome |-> r.outcome,
                     item |-> IF r.outcome = "item" THEN r.item ELSE NoValue])
    /\ [][/\ (getter.pc = "idle" /\ getter'.pc = "miss") =>
               UidStr(getter'.args.uid) \notin DOMAIN cache
          /\ (got = NoGet /\ got' # NoGet /\ got'.src = "cache") =>
               getter.pc = "idle" /\ getter' = getter]_vars

\* the key of a stored entity has expired and the store answered with the entity
C11_Witness ==
    /\ CachedAnswer /\ got.src = "db" /\ got.outcome = "item"
    /\ UidStr(got.args.uid) \notin DOMAIN cache
    /\ got.item.task_status \in Finishes

\* C12: a lookup that lacks a required identity argument raises ValueError at
\* once, with no read of the cache or of the durable store: CachedMixin.get_item
\* without user_id unless ignore_user_id is set, OwnedEntity.get_item without
\* user_id, BusinessEntity.get_item without business_name.
C12_MissingIdentityRaises ==
    got # NoGet =>
        LET a == got.args
            missing ==
                IF "cls" \notin DOMAIN got
                   THEN a.user_id = NoValue /\ ~a.ignore_user_id
                ELSE IF got.cls = "OwnedEntity" THEN a.user_id = NoValue
                ELSE a.business_name = NoValue
        IN  missing => got.outcome = "ValueError" /\ got.src = "none"

\* an owner lookup without user_id raised although the store holds the entity
C12_Witness ==
    /\ got # NoGet /\ "cls" \in DOMAIN got /\ got.cls = "OwnedEntity"
    /\ got.args.user_id = NoValue /\ got.outcome = "ValueError"
    /\ got.args.uid \in DOMAIN db
    /\ db[got.args.uid].business_name = got.args.business_name
    /\ ~db[got.args.uid].is_deleted

\* =============================================================== TaskMixin
MaxCalls == 2

\* tasks.py:234-238: the statuses update_and_emit treats as terminal
TerminalList == {"done", "error", "completed"}

\* task_instance.__class__.__name__, and the name of another task class
TaskType == "TaskA"
OtherType == "TaskB"

\* the listeners of every class, whatever the class asked for
signals_AllTypes(cls) ==
    (IF TaskType \in DOMAIN env.signal_map THEN env.signal_map[TaskType] ELSE <<>>)
    \o (IF OtherType \in DOMAIN env.signal_map THEN env.signal_map[OtherType] ELSE <<>>)

\* tasks.py:125-130: cls.signals(), the listeners registered under the class name
signals(cls) == IF cls \in DOMAIN env.signal_map THEN env.signal_map[cls] ELSE <<>>

\* only the webhook key is looked up
webhook_of_KeyOnly(meta) ==
    IF "webhook" \in DOMAIN meta /\ meta["webhook"] # "" THEN meta["webhook"]
    ELSE NoValue

\* tasks.py:153-157: meta_data.get("webhook") or meta_data.get("webhook_url")
webhook_of(meta) ==
    IF "webhook" \in DOMAIN meta /\ meta["webhook"] # "" THEN meta["webhook"]
    ELSE IF "webhook_url" \in DOMAIN meta /\ meta["webhook_url"] # ""
            THEN meta["webhook_url"]
    ELSE NoValue

Envs ==
    {[meta_data |-> m,
      signal_map |-> IF l = <<>> THEN EmptyMap ELSE [c \in {TaskType} |-> l]] :
        m \in {EmptyMap, [webhook |-> "http://hook"]},
        l \in {<<>>, <<"L1">>, <<"L1", "L2">>}}
    \cup {[meta_data |-> [webhook_url |-> "http://hook2"], signal_map |-> EmptyMap]}

\* tasks.py:39-44: TaskLogRecord(task_status=..., message=...)
TaskLogRecord(status, message) == [task_status |-> status, message |-> message]

\* an append that records the entry twice
add_log_Twice(t, rec) == [t EXCEPT !.task_logs = Append(Append(@, rec), rec)]

\* tasks.py:216: self.task_logs.append(log_record)
add_log(t, rec) == [t EXCEPT !.task_logs = Append(@, rec)]

\* tasks.py:241-242: for key, value in kwargs.items(): setattr(self, key, value)
setattrs(t, kw) == [k \in DOMAIN t |-> IF k \in DOMAIN kw THEN kw[k] ELSE t[k]]

\* the arguments of save_status: a status, and emit passed or left at its default
StatusArgs == {"processing", "paused", "done"}

\* the keyword arguments of update_and_emit: each key passed or not
Kwargs ==
    {a @@ b @@ c :
        a \in {<<>>} \cup {[task_status |-> st] : st \in {"processing", "done", "error"}},
        b \in {<<>>} \cup {[task_progress |-> 50]},
        c \in {<<>>} \cup {[task_report |-> r] : r \in {"", "r1"}}}

\* every report argument counts as a report
Truthy_Always(v) == TRUE

\* python truthiness of a report argument
Truthy(v) == v # "" /\ v # NoValue

\* a terminal incoming status forces task_progress to 100
WithProgress_Forced(kw) ==
    IF "task_status" \in DOMAIN kw /\ kw.task_status \in {"done", "error", "completed"}
       THEN [task_progress |-> 100] @@ kw
       ELSE kw

\* tasks.py:234-239: a terminal incoming status defaults task_progress to 100
WithProgress(kw) ==
    IF "task_status" \in DOMAIN kw /\ kw.task_status \in TerminalList
       THEN [task_progress |->
                IF "task_progress" \in DOMAIN kw THEN kw.task_progress ELSE 100] @@ kw
       ELSE kw

\* no sub-operation of an earlier save_and_emit is still running
SubQuiet ==
    /\ sub.persist # "run"
    /\ sub.hook \notin {"post", "saving"}
    /\ sub.notify = "none" \/ Len(sub.heard) = Len(sub.targets)

CanCall == call.pc \in {"idle", "returned"} /\ nCalls < MaxCalls /\ SubQuiet

\* tasks.py:227-229 and 152-179: asyncio.gather(self.save(), self.emit_signals(self))
\* starts both; emit_signals builds the webhook call when meta_data names one,
\* and one awaitable per listener registered for the class at that moment
Gathering ==
    [persist |-> "run", notify |-> "run",
     hook |-> IF webhook_of(env.meta_data) # NoValue THEN "post" ELSE "none",
     heard |-> <<>>, raised |-> {}, request |-> NoRequest,
     targets |-> signals(TaskType), ran |-> {}]

\* tasks.py:158-168: the POST webhook_call will send: the task's model_dump
\* with task_type added, to the webhook URL
Request(t) ==
    IF webhook_of(env.meta_data) = NoValue THEN NoRequest
    ELSE [url |-> webhook_of(env.meta_data), method |-> "post",
          data |-> [task_type |-> TaskType,
                    task_status |-> EnumValue(t.task_status),
                    task_progress |-> t.task_progress,
                    task_report |-> t.task_report]]

Emitting(t) == [Gathering EXCEPT !.request = Request(t)]

GatherFx == [combined |-> 1, saves |-> 1, emits |-> 1, posts |-> 0]

\* tasks.py:181-193 with add_log (215-219): save_status(status, emit=...)
save_status(status, emit) ==
    LET t == add_log([task EXCEPT !.task_status = status],
                     TaskLogRecord(status, "Status changed to " \o status)) IN
    /\ CanCall
    /\ nCalls' = nCalls + 1
    /\ task' = t
    /\ call' = [op |-> "save_status", pc |-> IF emit THEN "gather" ELSE "returned",
                status |-> status, emit |-> emit, pre |-> task,
                trig |-> t, swallowed |-> FALSE]
    /\ sub' = IF emit THEN Emitting(t) ELSE NoSub
    /\ fx' = IF emit THEN GatherFx ELSE NoFx
    /\ UNCHANGED <<env, storeVars, procVars>>

\* tasks.py:233-251: update_and_emit(**kwargs)
update_and_emit(kw0) ==
    LET kw == WithProgress(kw0)
        t1 == setattrs(task, kw)
        t2 == IF "task_report" \in DOMAIN kw /\ Truthy(kw.task_report)
                 THEN add_log(t1, TaskLogRecord(t1.task_status, kw.task_report))
                 ELSE t1
    IN
    /\ CanCall
    /\ nCalls' = nCalls + 1
    /\ task' = t2
    /\ call' = [op |-> "update_and_emit", pc |-> "gather", kwargs |-> kw0,
                pre |-> task, trig |-> t2, swallowed |-> FALSE]
    /\ sub' = Emitting(t2)
    /\ fx' = GatherFx
    /\ UNCHANGED <<env, storeVars, procVars>>

\* tasks.py:229: the self.save() of the gather ends, saved or raising
PersistEnds(ok) ==
    /\ sub.persist = "run"
    /\ sub' = [sub EXCEPT !.persist = IF ok THEN "ok" ELSE "fail"]
    /\ UNCHANGED <<task, call, fx, env, nCalls, storeVars, procVars>>

\* the failure of the POST leaves webhook_call uncaught
HookPosted_Propagates(ok) ==
    /\ sub.hook = "post"
    /\ fx' = [fx EXCEPT !.posts = @ + 1]
    /\ sub' = [sub EXCEPT !.hook = IF ok THEN "done" ELSE "failed",
                          !.notify = IF ~ok /\ @ = "run" THEN "fail" ELSE @]
    /\ UNCHANGED <<task, call, env, nCalls, storeVars, procVars>>

\* tasks.py:141-147: the POST of webhook_call ends; a failure is caught and
\* reported with save_report(..., emit=False) (205-213), then save() is awaited
HookPosted(ok) ==
    /\ sub.hook = "post"
    /\ fx' = [fx EXCEPT !.posts = @ + 1, !.saves = IF ok THEN @ ELSE @ + 1]
    /\ sub' = [sub EXCEPT !.hook = IF ok THEN "done" ELSE "saving"]
    /\ task' = IF ok THEN task
               ELSE add_log([task EXCEPT !.task_report = "webhook_call error"],
                            TaskLogRecord(task.task_status, "webhook_call error"))
    /\ UNCHANGED <<call, env, nCalls, storeVars, procVars>>

\* tasks.py:148-150: the save() after a failed POST ends; its failure leaves
\* webhook_call and fails the notification
HookSaved(ok) ==
    /\ sub.hook = "saving"
    /\ sub' = [sub EXCEPT !.hook = IF ok THEN "done" ELSE "failed",
                          !.notify = IF ~ok /\ @ = "run" THEN "fail" ELSE @]
    /\ UNCHANGED <<task, call, fx, env, nCalls, storeVars, procVars>>

\* a registered listener runs; its failure is caught for that listener alone
ListenerRuns_Isolated(i, ok) ==
    /\ sub.notify # "none"
    /\ i \in (1 .. Len(sub.targets)) \ sub.ran
    /\ sub' = [sub EXCEPT !.heard = Append(@, sub.targets[i]),
                          !.ran = @ \cup {i},
                          !.raised = IF ok THEN @ ELSE @ \cup {sub.targets[i]}]
    /\ UNCHANGED <<task, call, fx, env, nCalls, storeVars, procVars>>

\* tasks.py:170-179: a registered listener runs; its failure fails the gather
\* of emit_signals, the other awaitables keep running
ListenerRuns(i, ok) ==
    /\ sub.notify # "none"
    /\ i \in (1 .. Len(sub.targets)) \ sub.ran
    /\ sub' = [sub EXCEPT !.heard = Append(@, sub.targets[i]),
                          !.ran = @ \cup {i},
                          !.raised = IF ok THEN @ ELSE @ \cup {sub.targets[i]},
                          !.notify = IF ~ok /\ @ = "run" THEN "fail" ELSE @]
    /\ UNCHANGED <<task, call, fx, env, nCalls, storeVars, procVars>>

\* tasks.py:179: every awaitable of emit_signals has ended without raising
NotifyEnds ==
    /\ sub.notify = "run"
    /\ sub.hook \in {"none", "done"}
    /\ Len(sub.heard) = Len(sub.targets)
    /\ sub' = [sub EXCEPT !.notify = "ok"]
    /\ UNCHANGED <<task, call, fx, env, nCalls, storeVars, procVars>>

\* the gather of save_and_emit ends and its failure reaches the caller
SaveAndEmitReturns_Propagates ==
    /\ call.pc = "gather"
    /\ \/ sub.persist = "ok" /\ sub.notify = "ok"
       \/ sub.persist = "fail"
       \/ sub.notify = "fail"
    /\ call' = [call EXCEPT !.pc = IF sub.persist = "fail" \/ sub.notify = "fail"
                                      THEN "raised" ELSE "returned"]
    /\ UNCHANGED <<task, sub, fx, env, nCalls, storeVars, procVars>>

\* tasks.py:227-231: the gather of save_and_emit ends, at the first failure or
\* when both have ended; the failure is logged and the caller resumes
SaveAndEmitReturns ==
    /\ call.pc = "gather"
    /\ \/ sub.persist = "ok" /\ sub.notify = "ok"
       \/ sub.persist = "fail"
       \/ sub.notify = "fail"
    /\ call' = [call EXCEPT !.pc = "returned",
                            !.swallowed = sub.persist = "fail" \/ sub.notify = "fail"]
    /\ UNCHANGED <<task, sub, fx, env, nCalls, storeVars, procVars>>

InitTask == StoresInit /\ ProcIdle /\ TaskIdle /\ MoreIdle

\* the listeners and the webhook are registered before the task is used
Configure(e) ==
    /\ nCalls = 0 /\ call.pc = "idle" /\ env = NoEnv /\ e # NoEnv
    /\ env' = e
    /\ UNCHANGED <<task, call, sub, fx, nCalls, storeVars, procVars>>

NextTask ==
    \/ \E e \in Envs : Configure(e) /\ UNCHANGED moreVars
    \/ \E st \in StatusArgs, emit \in BOOLEAN : save_status(st, emit) /\ UNCHANGED moreVars
    \/ \E kw \in Kwargs : update_and_emit(kw) /\ UNCHANGED moreVars
    \/ \E ok \in BOOLEAN : PersistEnds(ok) /\ UNCHANGED moreVars
    \/ \E ok \in BOOLEAN : HookPosted(ok) /\ UNCHANGED moreVars
    \/ \E ok \in BOOLEAN : HookSaved(ok) /\ UNCHANGED moreVars
    \/ \E i \in 1 .. 2, ok \in BOOLEAN : ListenerRuns(i, ok) /\ UNCHANGED moreVars
    \/ NotifyEnds /\ UNCHANGED moreVars
    \/ SaveAndEmitReturns /\ UNCHANGED moreVars

SpecTask == InitTask /\ [][NextTask]_vars

\* the log entries appended since the combined persist+notify was triggered are
\* the reports of failed webhook deliveries, one per extra save()
OnlyHookReports ==
    /\ Len(task.task_logs) >= Len(call.trig.task_logs)
    /\ SubSeq(task.task_logs, 1, Len(call.trig.task_logs)) = call.trig.task_logs
    /\ \A i \in Len(call.trig.task_logs) + 1 .. Len(task.task_logs) :
          task.task_logs[i].message = "webhook_call error"
    /\ Len(task.task_logs) - Len(call.trig.task_logs) <= 1

\* C13: save_status(status), from any current status, sets task_status to the
\* status and appends exactly one log record, whose status is the new status,
\* before it triggers the combined persist+notify; it triggers that exactly
\* once, and with emit suppressed it triggers nothing: no save(), no
\* emit_signals, no POST, no listener.
C13_SaveStatusLogsAndNotifiesOnce ==
    call.op = "save_status" =>
        /\ task.task_status = call.status
        /\ Len(call.trig.task_logs) = Len(call.pre.task_logs) + 1
        /\ SubSeq(call.trig.task_logs, 1, Len(call.pre.task_logs)) = call.pre.task_logs
        /\ call.trig.task_logs[Len(call.trig.task_logs)].task_status = call.status
        /\ OnlyHookReports
        /\ IF call.emit
              THEN fx.combined = 1 /\ fx.emits = 1 /\ fx.saves >= 1
              ELSE /\ fx.combined = 0 /\ fx.saves = 0 /\ fx.emits = 0 /\ fx.posts = 0
                   /\ sub.heard = <<>> /\ sub.persist = "none" /\ sub.notify = "none"
                   /\ task = call.trig /\ call.pc = "returned"

\* a terminal task set back to processing: saved, posted and heard by both listeners
C13_Witness ==
    /\ call.op = "save_status" /\ call.emit /\ call.pc = "returned"
    /\ call.pre.task_status = "done" /\ call.status = "processing"
    /\ sub.persist = "ok" /\ sub.notify = "ok" /\ fx.posts = 1
    /\ sub.heard = <<"L1", "L2">>

\* C14: after update_and_emit with a terminal incoming task_status (completed,
\* done, error) task_progress is 100, unless the call passes task_progress, whose
\* value is then kept; with a non-terminal or absent incoming status
\* task_progress changes only when passed.
C14_TerminalForcesProgress ==
    call.op = "update_and_emit" =>
        LET kw == call.kwargs
            passed == "task_progress" \in DOMAIN kw
            terminal == /\ "task_status" \in DOMAIN kw
                        /\ kw.task_status \in {"completed", "done", "error"}
        IN  task.task_progress =
                IF passed THEN kw.task_progress
                ELSE IF terminal THEN 100
                ELSE call.pre.task_progress

\* a terminal update that passes its own task_progress
C14_Witness ==
    /\ call.op = "update_and_emit" /\ call.pc = "returned"
    /\ "task_status" \in DOMAIN call.kwargs /\ call.kwargs.task_status = "error"
    /\ "task_progress" \in DOMAIN call.kwargs /\ task.task_progress = 50
    /\ call.pre.task_progress = 100

MaxRef == 3
MaxTasks == 3

RefIds == 1 .. MaxRef
Modes == {"serial", "parallel"}

\* tasks.py:61-63 and 94-96: the two kinds of element of a reference list
TaskReference(i) == [kind |-> "TaskReference", task_id |-> i]
TaskReferenceList(mode, tasks) ==
    [kind |-> "TaskReferenceList", mode |-> mode, tasks |-> tasks]

\* what calling an async def method without await evaluates to: a coroutine
\* object; the body of the method has not run
Coroutine(method, self) == [kind |-> "coroutine", method |-> method, self |-> self]

\* the attributes an object of each kind has: TaskReference (tasks.py:61-91),
\* TaskReferenceList (94-105), TaskMixin (108-251), a coroutine object
Attrs(kind) ==
    CASE kind = "TaskReference" -> {"task_id", "task_type", "get_task_item"}
      [] kind = "TaskReferenceList" -> {"tasks", "mode", "list_processing"}
      [] kind = "TaskMixin" -> {"task_status", "task_references", "start_processing"}
      [] kind = "coroutine" -> {"send", "throw", "close"}
      [] kind = "None" -> {}

HasAttr(obj, name) == name \in Attrs(obj.kind)

SeqsUpTo(S, n) == UNION {[1 .. k -> S] : k \in 0 .. n}

NestedLists ==
    {TaskReferenceList(m, <<TaskReference(a), TaskReference(b)>>) :
        m \in Modes, a \in RefIds, b \in RefIds}

\* the values of task_references: unset, or a list of references and nested lists
\* tasks.py:113: task_references left at its default, None
NoReferences == [kind |-> "None"]

ReferenceInputs ==
    {NoReferences} \cup
    {TaskReferenceList(m, ts) :
        m \in Modes,
        ts \in SeqsUpTo({TaskReference(i) : i \in RefIds} \cup
                         {l \in NestedLists : l.tasks[1].task_id < l.tasks[2].task_id},
                        MaxTasks)}

\* tasks.py:99: [task.get_task_item() for task in self.tasks], element by
\* element; the first element without the method ends the comprehension
RECURSIVE task_items(_)
task_items(tasks) ==
    IF tasks = <<>> THEN [raised |-> FALSE, items |-> <<>>]
    ELSE IF ~HasAttr(Head(tasks), "get_task_item")
            THEN [raised |-> TRUE, items |-> <<>>]
    ELSE LET rest == task_items(Tail(tasks)) IN
         [raised |-> rest.raised,
          items |-> <<Coroutine("get_task_item", Head(tasks))>> \o rest.items]

Ended(p, outcome) == [p EXCEPT !.pc = "done", !.outcome = outcome]

\* a start_processing that goes on to task_references.list_processing() unchecked
start_processing_NoCheck(refs, fails) ==
    /\ proc.pc = "idle"
    /\ proc' =
          LET p == [pc |-> "list", refs |-> refs, fails |-> fails, items |-> <<>>,
                    idx |-> 1, resolved |-> {}, started |-> <<>>, ended |-> {},
                    outcome |-> "none"]
          IN  IF refs = NoReferences THEN Ended(p, "AttributeError") ELSE p
    /\ UNCHANGED <<storeVars, taskVars>>

\* tasks.py:221-225: start_processing on a task whose sub-tasks in `fails` fail
start_processing(refs, fails) ==
    /\ proc.pc = "idle"
    /\ proc' =
          LET p == [pc |-> "list", refs |-> refs, fails |-> fails, items |-> <<>>,
                    idx |-> 1, resolved |-> {}, started |-> <<>>, ended |-> {},
                    outcome |-> "none"]
          IN  IF refs = NoReferences THEN Ended(p, "NotImplementedError") ELSE p
    /\ UNCHANGED <<storeVars, taskVars>>

\* tasks.py:98-100: list_processing builds task_items and matches on the mode
list_processing ==
    /\ proc.pc = "list"
    /\ proc' =
          LET r == task_items(proc.refs.tasks) IN
          IF r.raised THEN Ended(proc, "AttributeError")
          ELSE [proc EXCEPT !.pc = proc.refs.mode, !.items = r.items]
    /\ UNCHANGED <<storeVars, taskVars>>

\* tasks.py:101-103: one turn of the serial loop: task_item.start_processing()
\* is looked up on the item, called and awaited
SerialNext ==
    /\ proc.pc = "serial"
    /\ proc' =
          IF proc.idx > Len(proc.items) THEN Ended(proc, "returned")
          ELSE LET item == proc.items[proc.idx] IN
               IF ~HasAttr(item, "start_processing")
                  THEN Ended(proc, "AttributeError")
               ELSE LET p == [proc EXCEPT !.started = Append(@, item.task_id),
                                          !.ended = @ \cup {item.task_id},
                                          !.idx = @ + 1]
                    IN  IF item.task_id \in proc.fails THEN Ended(p, "SubTaskError")
                        ELSE p
    /\ UNCHANGED <<storeVars, taskVars>>

\* tasks.py:104-105: [task.start_processing() for task in task_items] is built
\* item by item, then gathered
ParallelGather ==
    /\ proc.pc = "parallel"
    /\ proc' =
          IF \E i \in 1 .. Len(proc.items) : ~HasAttr(proc.items[i], "start_processing")
             THEN Ended(proc, "AttributeError")
          ELSE LET ids == [i \in 1 .. Len(proc.items) |-> proc.items[i].task_id]
                   p == [proc EXCEPT !.started = ids,
                                     !.ended = {ids[i] : i \in 1 .. Len(ids)}]
               IN  IF \E i \in 1 .. Len(ids) : ids[i] \in proc.fails
                      THEN Ended(p, "SubTaskError")
                   ELSE Ended(p, "returned")
    /\ UNCHANGED <<storeVars, taskVars>>

\* tasks.py:195-203: add_reference(task_id): self.task_references.append(task_id)
\* is looked up on the reference list, a pydantic model (94-96) or None (113);
\* the add_log that follows appends one record
add_reference(refs, task_id) ==
    /\ proc.pc = "idle"
    /\ proc' =
          IF ~HasAttr(refs, "append")
             THEN [pc |-> "added", refs |-> refs, task_id |-> task_id, after |-> refs,
                   logged |-> 0, outcome |-> "AttributeError"]
          ELSE [pc |-> "added", refs |-> refs, task_id |-> task_id,
                after |-> [refs EXCEPT !.tasks = Append(@, task_id)],
                logged |-> 1, outcome |-> "returned"]
    /\ UNCHANGED <<storeVars, taskVars>>

\* the reference lists add_reference is called on: unset, empty, flat lists
AddInputs ==
    {NoReferences} \cup
    {TaskReferenceList(m, ts) :
        m \in Modes, ts \in SeqsUpTo({TaskReference(i) : i \in RefIds}, 2)}

InitProc == StoresInit /\ TaskIdle /\ ProcIdle /\ MoreIdle

NextProc ==
    \/ \E refs \in ReferenceInputs, fails \in SUBSET RefIds : start_processing(refs, fails) /\ UNCHANGED moreVars
    \/ list_processing /\ UNCHANGED moreVars
    \/ SerialNext /\ UNCHANGED moreVars
    \/ ParallelGather /\ UNCHANGED moreVars
    \/ \E refs \in AddInputs, i \in RefIds : add_reference(refs, i) /\ UNCHANGED moreVars

SpecProc == InitProc /\ [][NextProc]_vars

\* the call has ended; its references are a list; the list has no nested list
ProcDone == proc.pc = "done"
IsList == proc.refs.kind = "TaskReferenceList"
Flat == \A i \in 1 .. Len(proc.refs.tasks) : proc.refs.tasks[i].kind = "TaskReference"
RefIdsOf(tasks) == [i \in 1 .. Len(tasks) |-> tasks[i].task_id]
Failing(ids) == {i \in 1 .. Len(ids) : ids[i] \in proc.fails}
Min(S) == CHOOSE x \in S : \A y \in S : x <= y

\* C16: start_processing() on a task whose task_references is unset raises
\* NotImplementedError to its caller; no reference is resolved, no sub-task started.
C16_UnsetReferencesRaise ==
    (ProcDone /\ proc.refs = NoReferences) =>
        /\ proc.outcome = "NotImplementedError"
        /\ proc.items = <<>> /\ proc.resolved = {} /\ proc.started = <<>>

\* the call on unset references has ended, with sub-tasks that would have failed
C16_Witness ==
    /\ ProcDone /\ proc.refs = NoReferences /\ proc.fails # {}
    /\ proc.outcome = "NotImplementedError"

\* C17: in serial mode the referenced tasks' start_processing() run one at a
\* time in list order; when sub-task k fails no later one is invoked and the
\* call fails, and when none fails all have run and the call returns.
C17_SerialRunsInOrder ==
    (ProcDone /\ IsList /\ proc.refs.mode = "serial" /\ Flat) =>
        LET ids == RefIdsOf(proc.refs.tasks)
            bad == Failing(ids)
        IN  /\ proc.started = SubSeq(ids, 1, IF bad = {} THEN Len(ids) ELSE Min(bad))
            /\ (proc.outcome = "returned") <=> bad = {}

\* C18: in parallel mode start_processing() is invoked on every referenced
\* task whatever the others do, and the call fails exactly when one of them fails.
C18_ParallelRunsAll ==
    (ProcDone /\ IsList /\ proc.refs.mode = "parallel" /\ Flat) =>
        LET ids == RefIdsOf(proc.refs.tasks) IN
        /\ Len(proc.started) = Len(ids)
        /\ \A i \in 1 .. Len(ids) : \E j \in 1 .. Len(ids) : proc.started[j] = ids[i]
        /\ (proc.outcome = "returned") <=> Failing(ids) = {}

\* C19: in parallel mode, when the caller observes the failure of the call every
\* referenced task has been attempted and has ended.
C19_ParallelFailsAfterAll ==
    (ProcDone /\ IsList /\ proc.refs.mode = "parallel" /\ Flat
        /\ proc.outcome # "returned") =>
        \A i \in 1 .. Len(proc.refs.tasks) : proc.refs.tasks[i].task_id \in proc.ended

\* the leaves of a reference tree, depth-first
Leaves(tasks) ==
    LET one(t) == IF t.kind = "TaskReference" THEN <<t.task_id>>
                  ELSE RefIdsOf(t.tasks)
        F[i \in 0 .. Len(tasks)] == IF i = 0 THEN <<>> ELSE F[i - 1] \o one(tasks[i])
    IN  F[Len(tasks)]

\* C20: a list may hold nested lists and is evaluated depth-first: when no
\* sub-task fails every leaf reference of the tree is started and the call
\* returns, and with serial lists throughout the leaves start in depth-first order.
C20_NestedDepthFirst ==
    (ProcDone /\ IsList /\ ~Flat
        /\ \A i \in 1 .. Len(Leaves(proc.refs.tasks)) :
              Leaves(proc.refs.tasks)[i] \notin proc.fails) =>
        LET leaves == Leaves(proc.refs.tasks) IN
        /\ proc.outcome = "returned"
        /\ \A i \in 1 .. Len(leaves) :
              \E j \in 1 .. Len(proc.started) : proc.started[j] = leaves[i]
        /\ (/\ proc.refs.mode = "serial"
            /\ \A i \in 1 .. Len(proc.refs.tasks) :
                  proc.refs.tasks[i].kind = "TaskReferenceList" =>
                      proc.refs.tasks[i].mode = "serial")
           => proc.started = leaves

\* the log t1 is a prefix of the log t2
IsPrefix(l1, l2) == Len(l1) <= Len(l2) /\ SubSeq(l2, 1, Len(l1)) = l1

\* C21: save_status and update_and_emit return normally to their caller when
\* the persist sub-operation, the notification sub-operation or both fail: no
\* call ends by raising, a call whose gather has failed can return, and after
\* the return the status, the progress and the log records the call applied in
\* memory are still there.
C21_FailuresSwallowed ==
    /\ call.pc \in {"idle", "gather", "returned"}
    /\ (call.pc = "gather" /\ (sub.persist = "fail" \/ sub.notify = "fail")) =>
            ENABLED SaveAndEmitReturns
    /\ (call.pc = "returned" /\ call.swallowed) =>
            /\ sub.persist = "fail" \/ sub.notify = "fail"
            /\ task.task_status = call.trig.task_status
            /\ task.task_progress = call.trig.task_progress
            /\ IsPrefix(call.trig.task_logs, task.task_logs)
            /\ Len(call.trig.task_logs) >= Len(call.pre.task_logs)

\* an update_and_emit that returned after both its save() and its
\* notification had failed
C21_Witness ==
    /\ call.op = "update_and_emit" /\ call.pc = "returned" /\ call.swallowed
    /\ sub.persist = "fail" /\ sub.notify = "fail"
    /\ "task_report" \in DOMAIN call.kwargs /\ call.kwargs.task_report = "r1"
    /\ Len(task.task_logs) > Len(call.pre.task_logs)

\* ---------------------------------------------------------------------------
\* A chain of awaited calls on one task, with listeners registered while it is
\* used and a webhook_call that outlives the call that started it
\* ---------------------------------------------------------------------------

\* registrations made in a run, over all task classes
MaxSignals == 2

\* the listeners a class may register
ListenersOf(cls) == IF cls = TaskType THEN {"L1", "L2"} ELSE {"L3"}

\* tasks.py:132-137: cls.add_signal(signal) appends to the list of the class
add_signal(cls, l) ==
    /\ Len(signals(TaskType)) + Len(signals(OtherType)) < MaxSignals
    /\ env' = [env EXCEPT !.signal_map = Put(@, cls, Append(signals(cls), l))]
    /\ UNCHANGED <<task, call, sub, fx, nCalls, storeVars, procVars>>

\* tasks.py:205-213 with add_log (215-219): save_report(report, emit=...)
save_report(report, emit) ==
    LET t == add_log([task EXCEPT !.task_report = report],
                     TaskLogRecord(task.task_status, report)) IN
    /\ CanCall
    /\ nCalls' = nCalls + 1
    /\ task' = t
    /\ call' = [op |-> "save_report", pc |-> IF emit THEN "gather" ELSE "returned",
                report |-> report, emit |-> emit, pre |-> task,
                trig |-> t, swallowed |-> FALSE]
    /\ sub' = IF emit THEN Emitting(t) ELSE NoSub
    /\ fx' = IF emit THEN GatherFx ELSE NoFx
    /\ UNCHANGED <<env, storeVars, procVars>>

\* tasks.py:227-231 and 179: the gather has raised and save_and_emit has
\* returned; the webhook_call it started is not cancelled and keeps running
\* while the caller goes on
Detach ==
    /\ call.pc = "returned" /\ call.swallowed
    /\ sub.hook \in {"post", "saving"}
    /\ bg = NoBg
    /\ bg' = [pc |-> sub.hook, owner |-> nCalls]
    /\ sub' = [sub EXCEPT !.hook = "left"]
    /\ UNCHANGED <<task, call, fx, env, nCalls, storeVars, procVars>>

\* tasks.py:141-147: the POST of the webhook_call left running ends; its
\* failure is reported with save_report(..., emit=False) on the same entity
BgHookPosted(ok) ==
    /\ bg.pc = "post"
    /\ bg' = IF ok THEN NoBg ELSE [bg EXCEPT !.pc = "saving"]
    /\ task' = IF ok THEN task
               ELSE add_log([task EXCEPT !.task_report = "webhook_call error"],
                            TaskLogRecord(task.task_status, "webhook_call error"))
    /\ UNCHANGED <<call, sub, fx, env, nCalls, storeVars, procVars>>

\* tasks.py:148-150: the save() of the webhook_call left running ends
BgHookSaved(ok) ==
    /\ bg.pc = "saving"
    /\ bg' = NoBg
    /\ UNCHANGED <<task, call, sub, fx, env, nCalls, storeVars, procVars>>

\* the records appended to task_logs by a step are those of call n
Tag(n) ==
    logBy' = logBy \o [i \in 1 .. (Len(task'.task_logs) - Len(task.task_logs)) |-> n]

ChainEnvs == {e \in Envs : e.signal_map = EmptyMap /\ e # NoEnv}
ChainStatus == {"processing", "done"}
ChainKwargs == {[task_report |-> "r1"], [task_status |-> "error"]}
ChainReports == {"r2"}

InitChain == StoresInit /\ ProcIdle /\ TaskIdle /\ MoreIdle

NextChain ==
    \/ \E e \in ChainEnvs : Configure(e) /\ UNCHANGED moreVars
    \/ \E c \in {TaskType, OtherType} : \E l \in ListenersOf(c) : add_signal(c, l) /\ UNCHANGED moreVars
    \/ \E st \in ChainStatus, emit \in BOOLEAN : save_status(st, emit) /\ Tag(nCalls + 1) /\ UNCHANGED <<bg, wrapVars, histVars>>
    \/ \E kw \in ChainKwargs : update_and_emit(kw) /\ Tag(nCalls + 1) /\ UNCHANGED <<bg, wrapVars, histVars>>
    \/ \E r \in ChainReports, emit \in BOOLEAN : save_report(r, emit) /\ Tag(nCalls + 1) /\ UNCHANGED <<bg, wrapVars, histVars>>
    \/ \E ok \in BOOLEAN : PersistEnds(ok) /\ UNCHANGED moreVars
    \/ \E ok \in BOOLEAN : HookPosted(ok) /\ Tag(nCalls) /\ UNCHANGED <<bg, wrapVars, histVars>>
    \/ \E ok \in BOOLEAN : HookSaved(ok) /\ UNCHANGED moreVars
    \/ \E i \in 1 .. MaxSignals, ok \in BOOLEAN : ListenerRuns(i, ok) /\ UNCHANGED moreVars
    \/ NotifyEnds /\ UNCHANGED moreVars
    \/ SaveAndEmitReturns /\ UNCHANGED moreVars
    \/ Detach /\ UNCHANGED <<logBy, wrapVars, histVars>>
    \/ \E ok \in BOOLEAN : BgHookPosted(ok) /\ Tag(bg.owner) /\ UNCHANGED <<wrapVars, histVars>>
    \/ \E ok \in BOOLEAN : BgHookSaved(ok) /\ UNCHANGED <<logBy, wrapVars, histVars>>

SpecChain == InitChain /\ [][NextChain]_vars

\* ---------------------------------------------------------------------------
\* _utils/basic.py: the retry wrap and the fail-soft wrap around one operation
\* ---------------------------------------------------------------------------

MaxAttempts == 3

\* the delay argument of retry_execution, in seconds
Delays == {0, 2}

\* what one invocation of the wrapped operation does: it returns a value
\* (possibly None), raises an Exception, or raises a BaseException that is not
\* an Exception (asyncio.CancelledError)
Outcomes ==
    {[kind |-> "ok", val |-> v] : v \in {"v1", NoValue}}
    \cup {[kind |-> "exc", err |-> e] : e \in {"E1", "E2"}}
    \cup {[kind |-> "base", err |-> "CancelledError"]}

\* basic.py:57 and 69-71: the for loop goes to its next attempt or ends
Loop(w, attempt) ==
    [w EXCEPT !.attempt = attempt,
              !.pc = IF attempt < w.attempts THEN "try" ELSE "exhausted"]

\* basic.py:52-57: the function wrapped by retry_execution(attempts, delay) is called
retry_execution(attempts, delay) ==
    /\ wrap.pc = "idle"
    /\ wrap' = Loop([kind |-> "retry", pc |-> "try", attempts |-> attempts,
                     delay |-> delay, attempt |-> 0, outs |-> <<>>, log |-> <<>>,
                     events |-> <<>>, last_exception |-> NoValue,
                     result |-> NoValue, error |-> NoValue], 0)

\* one attempt of the retry wrap that logs a failure line whatever the outcome
RetryAttempt_LogsAll(o) ==
    /\ wrap.kind = "retry" /\ wrap.pc = "try"
    /\ LET w == [wrap EXCEPT !.outs = Append(@, o), !.events = Append(@, "call"),
                             !.log = Append(@, [line |-> "attempt failed",
                                                n |-> wrap.attempt + 1,
                                                err |-> NoValue])]
       IN  wrap' = IF o.kind = "ok" THEN [w EXCEPT !.pc = "returned", !.result = o.val]
                   ELSE IF o.kind = "base" THEN [w EXCEPT !.pc = "raised", !.error = o.err]
                   ELSE IF w.delay > 0 THEN [w EXCEPT !.last_exception = o.err, !.pc = "sleep"]
                   ELSE Loop([w EXCEPT !.last_exception = o.err], w.attempt + 1)

\* basic.py:58-68: one attempt: the operation is invoked; its value is
\* returned, or its Exception is kept and logged and, with delay > 0, followed
\* by a sleep; anything else it raises leaves the wrapper
RetryAttempt(o) ==
    /\ wrap.kind = "retry" /\ wrap.pc = "try"
    /\ LET w == [wrap EXCEPT !.outs = Append(@, o), !.events = Append(@, "call")]
           f == [w EXCEPT !.last_exception = o.err,
                          !.log = Append(@, [line |-> "attempt failed",
                                             n |-> wrap.attempt + 1,
                                             err |-> o.err])]
       IN  wrap' = IF o.kind = "ok" THEN [w EXCEPT !.pc = "returned", !.result = o.val]
                   ELSE IF o.kind = "base" THEN [w EXCEPT !.pc = "raised", !.error = o.err]
                   ELSE IF f.delay > 0 THEN [f EXCEPT !.pc = "sleep"]
                   ELSE Loop(f, f.attempt + 1)

\* basic.py:67-68: await asyncio.sleep(delay) after a failed attempt
RetrySleep ==
    /\ wrap.kind = "retry" /\ wrap.pc = "sleep"
    /\ wrap' = Loop([wrap EXCEPT !.events = Append(@, "sleep")], wrap.attempt + 1)

\* the loop is over and the first failure is raised
RetryRaise_First ==
    /\ wrap.kind = "retry" /\ wrap.pc = "exhausted"
    /\ wrap' = [wrap EXCEPT
                    !.pc = "raised",
                    !.log = Append(@, [line |-> "all attempts failed",
                                       n |-> wrap.attempts, err |-> NoValue]),
                    !.error = IF wrap.outs = <<>> THEN "TypeError"
                              ELSE wrap.outs[1].err]

\* basic.py:69-71: the loop is over: the summary line is logged and
\* last_exception is raised; raising None is a TypeError
RetryRaise ==
    /\ wrap.kind = "retry" /\ wrap.pc = "exhausted"
    /\ wrap' = [wrap EXCEPT
                    !.pc = "raised",
                    !.log = Append(@, [line |-> "all attempts failed",
                                       n |-> wrap.attempts, err |-> NoValue]),
                    !.error = IF wrap.last_exception = NoValue THEN "TypeError"
                              ELSE wrap.last_exception]

\* basic.py:13-16: the function wrapped by try_except_wrapper is called
try_except_wrapper ==
    /\ wrap.pc = "idle"
    /\ wrap' = [kind |-> "failsoft", pc |-> "try", outs |-> <<>>, log |-> <<>>,
                result |-> NoValue, error |-> NoValue]

\* the operation is invoked and its Exception leaves the wrapper
TryExceptRuns_Reraise(o) ==
    /\ wrap.kind = "failsoft" /\ wrap.pc = "try"
    /\ LET w == [wrap EXCEPT !.outs = Append(@, o)]
       IN  wrap' = IF o.kind = "ok" THEN [w EXCEPT !.pc = "returned", !.result = o.val]
                   ELSE [w EXCEPT !.pc = "raised", !.error = o.err]

\* basic.py:16-33: the operation is invoked; its value is returned, its
\* Exception is logged and None returned; anything else it raises leaves the
\* wrapper
TryExceptRuns(o) ==
    /\ wrap.kind = "failsoft" /\ wrap.pc = "try"
    /\ LET w == [wrap EXCEPT !.outs = Append(@, o)]
       IN  wrap' = IF o.kind = "ok" THEN [w EXCEPT !.pc = "returned", !.result = o.val]
                   ELSE IF o.kind = "base" THEN [w EXCEPT !.pc = "raised", !.error = o.err]
                   ELSE [w EXCEPT !.pc = "returned", !.result = NoValue,
                                  !.log = Append(@, [line |-> "error", err |-> o.err])]

othersOfWrap == <<storeVars, taskVars, procVars, chainVars, histVars>>

InitWrap == StoresInit /\ ProcIdle /\ TaskIdle /\ MoreIdle

NextWrap ==
    \/ \E n \in 0 .. MaxAttempts, d \in Delays : retry_execution(n, d) /\ UNCHANGED othersOfWrap
    \/ \E o \in Outcomes : RetryAttempt(o) /\ UNCHANGED othersOfWrap
    \/ RetrySleep /\ UNCHANGED othersOfWrap
    \/ RetryRaise /\ UNCHANGED othersOfWrap
    \/ try_except_wrapper /\ UNCHANGED othersOfWrap
    \/ \E o \in Outcomes : TryExceptRuns(o) /\ UNCHANGED othersOfWrap

SpecWrap == InitWrap /\ [][NextWrap]_vars

\* meta_data carries a webhook URL under one of the two keys
HasWebhook == "webhook" \in DOMAIN env.meta_data \/ "webhook_url" \in DOMAIN env.meta_data

WebhookUrl ==
    IF "webhook" \in DOMAIN env.meta_data THEN env.meta_data["webhook"]
    ELSE env.meta_data["webhook_url"]

\* C23: a save_status to done on an entity whose meta_data carries a webhook or
\* webhook_url URL issues exactly one POST to that URL for the transition,
\* whose JSON body contains task_type and task_status = "done"; an entity with
\* no webhook key in meta_data issues no POST.
C23_OnePostPerDone ==
    (call.op = "save_status" /\ call.emit /\ call.status = "done") =>
        IF HasWebhook
           THEN /\ sub.hook # "none"
                /\ fx.posts = IF sub.hook = "post" THEN 0 ELSE 1
                /\ sub.request.method = "post"
                /\ sub.request.url = WebhookUrl
                /\ sub.request.data.task_type = TaskType
                /\ sub.request.data.task_status = "done"
           ELSE fx.posts = 0 /\ sub.hook = "none" /\ sub.request = NoRequest

\* a done transition posted to the URL found under webhook_url
C23_Witness ==
    /\ call.op = "save_status" /\ call.emit /\ call.status = "done"
    /\ call.pc = "returned" /\ ~call.swallowed
    /\ "webhook_url" \in DOMAIN env.meta_data
    /\ fx.posts = 1 /\ sub.request.url = "http://hook2"

\* the webhook delivery of the current emit_signals has failed: its report is in
\* the log
HookFailed == Len(task.task_logs) > Len(call.trig.task_logs)

\* C24: a failed webhook delivery is caught inside emit_signals: exactly one
\* report log entry describing it is appended, with notification suppressed
\* (no further POST, no further emit_signals, no listener invoked twice), every
\* registered listener can still be invoked, and emit_signals does not fail
\* because of it: while the save() that follows the report has not raised,
\* the notification fails only if a listener raised.
C24_WebhookFailureIsolated ==
    call.pc \in {"gather", "returned"} =>
        /\ sub.hook \in {"saving", "failed"} => HookFailed
        /\ sub.hook \in {"none", "post"} => ~HookFailed
        /\ HookFailed =>
              /\ OnlyHookReports
              /\ Len(task.task_logs) = Len(call.trig.task_logs) + 1
              /\ task.task_logs[Len(task.task_logs)].task_status = call.trig.task_status
              /\ task.task_report = "webhook_call error"
              /\ fx.posts = 1 /\ fx.emits = 1 /\ fx.combined = 1 /\ fx.saves = 2
              /\ Cardinality(sub.ran) = Len(sub.heard)
              /\ \A i \in (1 .. Len(sub.targets)) \ sub.ran :
                    ENABLED ListenerRuns(i, TRUE)
              /\ (sub.notify = "fail" /\ sub.hook # "failed") => sub.raised # {}
              /\ (sub.hook = "done" /\ Len(sub.heard) = Len(sub.targets)
                    /\ sub.raised = {}) => sub.notify \in {"run", "ok"}

\* the POST failed, its report was saved, and both listeners were invoked and
\* the notification ended without failure
C24_Witness ==
    /\ call.pc = "returned" /\ ~call.swallowed
    /\ HookFailed /\ sub.hook = "done" /\ sub.notify = "ok"
    /\ sub.heard = <<"L2", "L1">>

\* C25: listener failures are not isolated per listener: when a registered
\* listener raises, emit_signals fails; the failure is caught only by the
\* combined persist+notify wrapper, so the caller of save_status or
\* update_and_emit gets a normal return, and the entity it holds is the one a
\* run without the failure leaves: nothing names the failing listener.
C25_ListenerFailureFailsEmit ==
    sub.raised # {} =>
        /\ sub.notify = "fail"
        /\ call.pc \in {"gather", "returned"}
        /\ ENABLED SaveAndEmitReturns \/ call.pc = "returned"
        /\ call.pc = "returned" => call.swallowed
        /\ task.task_status = call.trig.task_status
        /\ task.task_progress = call.trig.task_progress
        /\ OnlyHookReports
        /\ ~HookFailed => task = call.trig

\* the second of two listeners raised, the first was still invoked, and the
\* caller got its return with the entity unchanged
C25_Witness ==
    /\ call.pc = "returned" /\ call.swallowed /\ sub.persist = "ok"
    /\ sub.targets = <<"L1", "L2">> /\ sub.raised = {"L2"}
    /\ sub.heard = <<"L2", "L1">> /\ task = call.trig

\* the listeners in the registry under a class name
Registered(cls) == IF cls \in DOMAIN env.signal_map THEN env.signal_map[cls] ELSE <<>>

\* how many times x occurs among the entries of s at the indices in I
Count(s, I, x) == Cardinality({i \in I : s[i] = x})

\* C22 (state part): an emit_signals invokes the listeners registered for the
\* task's type when it started, each registration at most once and, when it
\* has ended without failure, each exactly once; it invokes no listener
\* registered for another type; a later registration leaves the ones it took
\* in place and in order.
C22_ListenersOfTheType ==
    sub.notify # "none" =>
        /\ IsPrefix(sub.targets, Registered(TaskType))
        /\ sub.ran \subseteq 1 .. Len(sub.targets)
        /\ Len(sub.heard) = Cardinality(sub.ran)
        /\ \A l \in {"L1", "L2", "L3"} :
              Count(sub.heard, DOMAIN sub.heard, l) = Count(sub.targets, sub.ran, l)
        /\ \A i \in DOMAIN sub.heard, j \in DOMAIN Registered(OtherType) :
              sub.heard[i] # Registered(OtherType)[j]
        /\ sub.notify = "ok" => sub.ran = 1 .. Len(sub.targets)

\* C22 (step part): registration appends to the list of its type and touches
\* no other list, no step removes or reorders a registered listener, and a
\* call that notifies takes every listener registered for the type so far.
C22_RegistryStep ==
    /\ \A c \in {TaskType, OtherType} : IsPrefix(Registered(c), Registered(c)')
    /\ (nCalls' = nCalls + 1 /\ sub'.notify # "none") =>
            sub'.targets = Registered(TaskType)

\* C22: emit_signals(task_instance) invokes every listener registered for the
\* instance's task type exactly once and no listener registered for another
\* type; registration is per type, listeners are kept in registration order,
\* and no operation removes a registered listener.
C22_EmitInvokesRegistered == []C22_ListenersOfTheType /\ [][C22_RegistryStep]_vars

\* L2 then L1 registered for the type, a notification that invoked both and
\* ended, nothing registered for the other type invoked
C22_Witness ==
    /\ sub.notify = "ok" /\ sub.targets = <<"L2", "L1">>
    /\ Len(sub.heard) = 2 /\ call.pc = "returned"

\* C30: task_logs is append-only and ordered by the caller's sequential await
\* chain: across save_status, save_report and update_and_emit calls awaited
\* one after another, the log before each call is a prefix of the log after
\* it, and the records appear in the order of the calls that appended them.
C30_LogsInCallOrder ==
    /\ Len(logBy) = Len(task.task_logs)
    /\ call.pc # "idle" => IsPrefix(call.pre.task_logs, task.task_logs)
    /\ \A i, j \in DOMAIN logBy : i < j => logBy[i] <= logBy[j]

\* the retry wrap has been called and every invocation so far raised an Exception
AllFailed == wrap.pc # "idle" /\ wrap.kind = "retry"
             /\ \A i \in DOMAIN wrap.outs : wrap.outs[i].kind = "exc"

\* the failure lines logged for single attempts
AttemptLines == SelectSeq(wrap.log, LAMBDA r : r.line = "attempt failed")

\* C26: retry wrap: when the wrapped operation fails on attempts 1..k-1 and
\* succeeds on attempt k <= attempts, the wrapper returns that value, has
\* invoked the operation exactly k times, invokes it no more, and has logged
\* exactly k-1 failure lines, one per failed attempt.
C26_RetryReturnsFirstSuccess ==
    (wrap.pc # "idle" /\ wrap.kind = "retry") =>
        LET k == Len(wrap.outs) IN
        /\ k <= wrap.attempts
        /\ (k > 0 /\ wrap.outs[k].kind = "ok") =>
              /\ wrap.pc = "returned" /\ wrap.result = wrap.outs[k].val
              /\ \A i \in 1 .. k - 1 : wrap.outs[i].kind = "exc"
              /\ Len(wrap.log) = k - 1
              /\ \A i \in 1 .. k - 1 :
                    wrap.log[i] = [line |-> "attempt failed", n |-> i,
                                   err |-> wrap.outs[i].err]
              /\ Len(SelectSeq(wrap.events, LAMBDA e : e = "call")) = k
              /\ ~ENABLED (\E o \in Outcomes : RetryAttempt(o))
        /\ wrap.pc = "returned" => (k > 0 /\ wrap.outs[k].kind = "ok")

\* attempts = 3, delay = 0, failures on attempts 1 and 2, success on attempt 3:
\* the value is returned and 2 failure lines are logged
C26_Witness ==
    /\ wrap.pc = "returned" /\ wrap.kind = "retry"
    /\ wrap.attempts = 3 /\ wrap.delay = 0
    /\ Len(wrap.outs) = 3 /\ wrap.result = "v1" /\ Len(wrap.log) = 2

\* C27: retry wrap, attempts >= 1: when the wrapped operation fails on every
\* attempt it is invoked exactly `attempts` times, each failed attempt is
\* logged, the failure raised to the caller is the one of the last attempt, and
\* the caller sees no failure before all attempts are exhausted.
C27_RetryRaisesLastFailure ==
    (AllFailed /\ wrap.attempts >= 1) =>
        /\ Len(wrap.outs) <= wrap.attempts
        /\ Len(AttemptLines) = Len(wrap.outs)
        /\ \A i \in DOMAIN wrap.outs :
              AttemptLines[i] = [line |-> "attempt failed", n |-> i,
                                 err |-> wrap.outs[i].err]
        /\ wrap.pc # "returned"
        /\ wrap.pc = "raised" =>
              /\ Len(wrap.outs) = wrap.attempts
              /\ wrap.error = wrap.outs[wrap.attempts].err
        /\ Len(wrap.outs) = wrap.attempts =>
              wrap.pc \in {"sleep", "exhausted", "raised"}

\* three failing attempts, the last with another failure than the first two
C27_Witness ==
    /\ AllFailed /\ wrap.pc = "raised" /\ wrap.attempts = 3
    /\ wrap.outs[1].err = "E1" /\ wrap.outs[3].err = "E2" /\ wrap.error = "E2"

\* C28: retry wrap sleeps `delay` between attempts when delay > 0: a sleep
\* occurs between each failed attempt and the attempt that follows it and
\* nowhere else (none before the first attempt, none after the final attempt),
\* and no sleep occurs when delay = 0.
C28_SleepsOnlyBetweenAttempts ==
    (wrap.pc # "idle" /\ wrap.kind = "retry") =>
        LET ev == wrap.events
            n == Len(ev)
        IN  /\ wrap.delay = 0 => \A i \in 1 .. n : ev[i] = "call"
            /\ n > 0 => ev[1] = "call"
            /\ wrap.delay > 0 => \A i \in 1 .. n - 1 : ev[i] # ev[i + 1]
            /\ \A i \in 1 .. n : ev[i] = "sleep" =>
                  wrap.outs[Len(SelectSeq(SubSeq(ev, 1, i), LAMBDA e : e = "call"))].kind
                      = "exc"
            /\ (wrap.pc \in {"exhausted", "raised", "returned"} /\ n > 0) =>
                  ev[n] = "call"

\* C29: fail-soft wrap: for an operation that raises an Exception the wrapper
\* invokes it exactly once, logs the failure, returns None and does not
\* propagate the exception; for an operation that succeeds it returns the
\* operation's result unchanged and logs nothing.
C29_FailSoftReturnsNone ==
    (wrap.pc # "idle" /\ wrap.kind = "failsoft") =>
        /\ Len(wrap.outs) <= 1
        /\ wrap.pc = "try" <=> wrap.outs = <<>>
        /\ (wrap.outs # <<>> /\ wrap.outs[1].kind = "exc") =>
              /\ wrap.pc = "returned" /\ wrap.result = NoValue
              /\ wrap.error = NoValue
              /\ wrap.log = <<[line |-> "error", err |-> wrap.outs[1].err]>>
        /\ (wrap.outs # <<>> /\ wrap.outs[1].kind = "ok") =>
              /\ wrap.pc = "returned" /\ wrap.result = wrap.outs[1].val
              /\ wrap.log = <<>>

\* the operation raised E2 and the caller got None
C29_Witness ==
    /\ wrap.pc = "returned" /\ wrap.kind = "failsoft"
    /\ wrap.outs = <<[kind |-> "exc", err |-> "E2"]>> /\ wrap.result = NoValue

\* C31: add_reference(task_id) on an entity with a populated reference list
\* appends the reference as the last element of task_references, leaves the
\* earlier elements unchanged, and appends exactly one log record recording
\* the addition.
C31_AddReferenceAppends ==
    (proc.pc = "added" /\ proc.refs # NoReferences /\ proc.refs.tasks # <<>>) =>
        /\ proc.outcome = "returned"
        /\ Len(proc.after.tasks) = Len(proc.refs.tasks) + 1
        /\ SubSeq(proc.after.tasks, 1, Len(proc.refs.tasks)) = proc.refs.tasks
        /\ proc.logged = 1

\* C37: when save_status or update_and_emit returns to its caller, the persist
\* sub-operation it started has finished, succeeded or failed, and is not
\* still running, also when a listener or the webhook step fails before the
\* persist completes.
C37_PersistDoneAtReturn ==
    call.pc = "returned" => sub.persist # "run"

\* C39: for every value of attempts, 0 included, a retry-wrapped call ends in
\* one of two ways only: it returns a value the wrapped operation returned, or
\* it raises a failure the wrapped operation raised; it raises no failure of
\* its own making and never returns without having invoked the operation.
C39_RetryEndsAsTheOperation ==
    (wrap.kind = "retry") =>
        /\ wrap.pc = "returned" =>
              \E i \in DOMAIN wrap.outs :
                  wrap.outs[i].kind = "ok" /\ wrap.outs[i].val = wrap.result
        /\ wrap.pc = "raised" =>
              \E i \in DOMAIN wrap.outs :
                  wrap.outs[i].kind # "ok" /\ wrap.outs[i].err = wrap.error

\* the maps m1 and m2 agree on every key but k
SameBut(m1, m2, k) ==
    /\ (DOMAIN m1) \ {k} = (DOMAIN m2) \ {k}
    /\ \A x \in (DOMAIN m1) \ {k} : m1[x] = m2[x]

\* C32 (step part): the two steps of a save() with a non-terminal status
C32_NonTerminalSaveStep ==
    \A p \in Savers :
        /\ (saver[p].pc = "idle" /\ saver'[p].pc = "set"
              /\ saver'[p].ent.task_status \notin Finishes) =>
                LET e == saver'[p].ent IN
                /\ db' = db /\ hash' = hash
                /\ SameBut(cache, cache', UidStr(e.uid))
                /\ cache'[UidStr(e.uid)] = model_dump_json(e)
        /\ (saver[p].pc = "set" /\ saver'[p].pc = "idle"
              /\ saver[p].ent.task_status \notin Finishes) =>
                LET e == saver[p].ent IN
                /\ db' = db /\ cache' = cache
                /\ SameBut(hash, hash', UidStr(e.uid))
                /\ hash'[UidStr(e.uid)] = model_dump_json(e)

\* C32: save() of an entity with a non-terminal status writes only the
\* fast-read cache key and the staged-write hash entry of that uid: it writes
\* nothing to the durable store and leaves the staged entries and cache keys
\* of all other uids unchanged.
C32_NonTerminalSaveFrame == [][C32_NonTerminalSaveStep]_vars

\* two non-terminal saves of different uids have returned: both entries are
\* staged, both keys cached, nothing is in the durable store
C32_Witness ==
    /\ Quiescent /\ nSaves = 2 /\ nFlushes = 0 /\ db = EmptyMap
    /\ DOMAIN hash = {UidStr(u) : u \in Uids}
    /\ DOMAIN cache = {UidStr(u) : u \in Uids}

\* C33: flush_queue_to_db() clears the staged-write hash only after a
\* successful batch write: when the flush fails, the entries it read are still
\* in the staged map afterwards, so that a later flush can deliver them
\* (stated for a flush that ran with no other operation in flight).
C33_FailedFlushKeepsStaged ==
    (lastFlush.kind = "flush" /\ lastFlush.outcome = "raised" /\ lastFlush.solo) =>
        \A k \in DOMAIN lastFlush.items :
            k \in DOMAIN hash /\ hash[k] = lastFlush.items[k]

\* C36 (step part): the steps of a terminal save() from its durable write on
C36_TerminalSaveStep ==
    \A p \in Savers :
        (saver[p].pc = "set" /\ saver[p].ent.task_status \in Finishes
            /\ saver'[p] # saver[p]) =>
                /\ hash' = hash
                /\ saver'[p].pc \in {"idle", "saved"}
                /\ saver'[p].pc = "idle" =>
                      db' = db /\ lastSaved' = lastSaved /\ pending' = pending
                /\ saver'[p].pc = "saved" =>
                      db'[saver[p].ent.uid] = saver[p].ent

\* C36: in a terminal save() the staged-write entry of the uid is removed only
\* after the durable-store write has succeeded: when the durable write fails
\* the error leaves save() and an existing staged entry of the uid stays.
C36_HdelOnlyAfterDurable == [][C36_TerminalSaveStep]_vars

\* a terminal save whose durable write failed: its snapshot is in the fast-read
\* key, not in the durable store, and the entry staged for the uid is still there
C36_Witness ==
    \E u \in Uids :
        /\ Quiescent /\ nSaves = 2 /\ nFlushes = 0
        /\ UidStr(u) \in DOMAIN cache
        /\ cache[UidStr(u)].task_status \in {EnumValue(s) : s \in Finishes}
        /\ is_cached(u) /\ u \notin DOMAIN db

\* C34: once a terminal save() of an entity has written its terminal snapshot
\* to the durable store, no flush_queue_to_db(), also not one that read the
\* staged map before the terminal save and writes its batch after it, replaces
\* that durable record with an earlier non-terminal snapshot of the uid.
C34_TerminalRecordStays ==
    \A u \in DOMAIN hist.sealed :
        u \in DOMAIN db /\ db[u] = hist.sealed[u]

\* C35: read-your-writes for non-terminal saves: after save() of an entity
\* with a non-terminal status has returned, with no later save of the uid,
\* get_item(uid) with matching identity returns the saved snapshot at every
\* later time, also after the fast-read key has expired and before any flush.
C35_ReadYourWrites ==
    (got # NoGet /\ got.args.uid \in DOMAIN hist.at.settled
        /\ got.args.uid \in DOMAIN hist.settled
        /\ hist.settled[got.args.uid] = hist.at.settled[got.args.uid]) =>
            LET e == hist.settled[got.args.uid] IN
            (/\ got.args.user_id = e.user_id
             /\ got.args.business_name = e.business_name
             /\ Validates(model_dump_json(e)) /\ ~e.is_deleted) =>
                got.outcome = "item" /\ got.item = e

\* C38: after delete_item(item) has returned, get_item(uid) with the default
\* is_deleted = false returns nothing for the uid, whether the lookup is
\* answered from the fast-read cache or from the durable store.
C38_DeletedIsNotReturned ==
    (got # NoGet /\ hist.at.deleted /\ got.args.uid \in hist.deleted
        /\ ~got.args.is_deleted) =>
            got.outcome = "none"

====
